---- MODULE Spec2Model ----
(***************************************************************************)
(* A model of the esp_dmx driver: the per-port driver object               *)
(* (src/src/esp_dmx.c), the UART interrupt handler                         *)
(* (src/include/driver/dmx_default_intr_handler.h) and the part of the     *)
(* UART transmitter the driver relies on (described by the comment of      *)
(* dmx_tx_packet, esp_dmx.c:574-585).  One port is modelled; the ports are *)
(* independent of each other (one p_dmx_obj slot and one UART each).       *)
(*                                                                         *)
(* The interrupt handler names the driver's slot index, buffer and buffer  *)
(* size tx_slot_idx / tx_buffer / tx_buffer_size; esp_dmx.c names the same *)
(* fields slot_idx / buffer[buf_idx] / buf_size.  The model has one field  *)
(* for each.                                                               *)
(***************************************************************************)
EXTENDS Integers, Naturals, Sequences, FiniteSets, TLC

\* ---------------------------------------------------------------- bounds
MaxBuf == 3         \* largest buffer_size install is called with
FifoLen == 2        \* depth of the UART TX FIFO (128 on the chip)
EmptyThresh == 2    \* TXFIFO_EMPTY is pending while fewer bytes are queued
MaxTicks == 1       \* how many times the clock advances in a run
RxFifoLen == 2      \* depth of the UART RX FIFO (128 on the chip)
RxFullThresh == 2   \* RXFIFO_FULL is raised when this many bytes are queued
MaxPdl == 2         \* longest parameter data of an RDM request or response
MaxTn == 1          \* SpecRdm makes requests while the counter is below this
MaxQueue == 2       \* SETs are made while the status queue is shorter
PersonalityCount == 2   \* personalities of the device
MaxHalfTicks == 2   \* how many times the clock advances by half a second

\* ------------------------------------------------------ program constants
DMX_MAX_PACKET_SIZE == 513
DMX_TX_MAX_BRK_TO_BRK_US == 1000000
UINT16_MAX == 65535
INT32_MAX == 2147483647
GARBAGE == 255      \* a byte read from beyond the end of the buffer
DMX_MIN_BAUDRATE == 245000
DMX_MAX_BAUDRATE == 255000
DMX_TX_MIN_SPACE_FOR_BRK_US == 92
DMX_TX_MIN_MRK_AFTER_BRK_US == 12
DMX_TX_MAX_MRK_AFTER_BRK_US == 999999
IDLE_NUM_MAX == 1023    \* 0x3ff
UINT8_MAX == 255

DMX_MODE_RX == "DMX_MODE_RX"
DMX_MODE_TX == "DMX_MODE_TX"

ESP_OK == "ESP_OK"
ESP_FAIL == "ESP_FAIL"
ESP_ERR_NO_MEM == "ESP_ERR_NO_MEM"
ESP_ERR_INVALID_ARG == "ESP_ERR_INVALID_ARG"
ESP_ERR_INVALID_STATE == "ESP_ERR_INVALID_STATE"
ESP_ERR_TIMEOUT == "ESP_ERR_TIMEOUT"
ESP_ERR_NOT_FOUND == "ESP_ERR_NOT_FOUND"

\* The interrupt families.  TXFIFO_EMPTY and TX_BRK_IDLE refill the FIFO,
\* TX_DONE signals the end of a packet, TX_BRK_DONE is only acknowledged.
DMX_INTR_TX_ALL == {"TXFIFO_EMPTY", "TX_BRK_IDLE", "TX_DONE", "TX_BRK_DONE"}
DMX_INTR_RX_ALL == {"RXFIFO_FULL", "FRAM_ERR", "RS485_FRM_ERR", "BRK_DET",
                    "RXFIFO_TOUT", "RXFIFO_OVF", "PARITY_ERR",
                    "RS485_PARITY_ERR"}
UART_INTR_MASK == DMX_INTR_TX_ALL \cup DMX_INTR_RX_ALL

\* the receive interrupts the handler tests together: data ready or a frame
\* boundary (line 58), a frame boundary (line 76), a data error (line 100)
RxDataIntr == {"RXFIFO_FULL", "FRAM_ERR", "RS485_FRM_ERR", "BRK_DET",
               "RXFIFO_TOUT"}
RxBreakIntr == {"FRAM_ERR", "RS485_FRM_ERR", "BRK_DET"}
RxErrIntr == {"RXFIFO_OVF", "PARITY_ERR", "RS485_PARITY_ERR"}

Tasks == {1, 2}
\* what write copies into the driver buffer, and what malloc may have left
\* in a fresh buffer
Patterns == {0, 1}
Fill(p, n) == [i \in 1..n |-> p]

VARIABLES
  p_dmx_obj,    \* the per-port slot: <<>> is NULL, <<obj>> an allocated driver
  hw_enabled,   \* dmx_context[dmx_num].hw_enabled
  int_ena,      \* UART interrupt enable mask
  int_raw,      \* latched (edge) interrupt status bits
  txfifo,       \* UART TX FIFO: records [i |-> buffer index, b |-> byte]
  tx_hw,        \* transmitter: "idle", "brk" (hardware break), "mab" (idle)
  txd_inv,      \* TXD line inverted (software break)
  rts,          \* RTS level written by uart_hal_set_rts (1 receive, 0 transmit)
  pc,           \* per task: where it is inside a driver call
  loc_now,      \* per task: the local `now' of dmx_tx_packet
  ev,           \* the last driver call that returned and what it returned
  now,          \* esp_timer_get_time()
  nticks,       \* number of clock advances so far
  halted,       \* the firmware panicked (NULL or freed pointer used)
  wire,         \* what the line last carried (see WireStates)
  slot_recent,  \* a slot was shifted out less than 1204us ago
  live,         \* the last successful install was not followed by a delete
  inflight,     \* a packet was accepted by send and is not yet complete
  npushed,      \* bytes of the current packet pushed into the FIFO so far
  seq_ok,       \* every push so far continued at the index after the last
  rxfifo,       \* UART RX FIFO: the bytes received and not yet read
  rx_pkt,       \* the bytes the line carried since the last break
  rx_sync,      \* how the receiver follows the packet on the line (RxSync)
  uart_cfg,     \* UART registers: baudrate, break_num, idle_num
  rdm,          \* the RDM controller's transaction (see RdmIdle)
  rsp,          \* the RDM responder's parameters and queue (see RspInit)
  brk_ts        \* ghost: when the breaks on the line began (see BrkOff)

vars == <<p_dmx_obj, hw_enabled, int_ena, int_raw, txfifo, tx_hw, txd_inv,
          rts, pc, loc_now, ev, now, nticks, halted, wire, slot_recent,
          live, inflight, npushed, seq_ok, rxfifo, rx_pkt, rx_sync,
          uart_cfg, rdm, rsp, brk_ts>>

hwvars == <<hw_enabled, int_ena, int_raw, txfifo, tx_hw, txd_inv, rts>>
ghostline == <<wire, slot_recent>>
ghostpkt == <<inflight, npushed, seq_ok>>
taskvars == <<pc, loc_now>>
clock == <<now, nticks>>
rxvars == <<rxfifo, rx_pkt, rx_sync>>
extvars == <<rxvars, uart_cfg, rdm, rsp, brk_ts>>

NULL == <<>>
obj == p_dmx_obj[1]
SEM_NULL == -1

\* bool dmx_is_driver_installed(dmx_num)
dmx_is_driver_installed == p_dmx_obj # NULL

\* what a driver call returned: the call and its esp_err_t
Ret(t, op, err) == <<op, err>>

Min(a, b) == IF a < b THEN a ELSE b

\* The line, as a receiver sees it: idle since power-up ("mark"); in a break
\* ("brk") or in the mark after a break ("mab"), "_early" when the break began
\* less than 1204us after a slot; a slot ("data"); a start code that did not
\* follow a break and mark ("sc_unframed") or followed an early break
\* ("sc_early").  The timestamps behind "early" are not kept: only whether
\* the clock advanced since the last slot.
BreakEdge == IF slot_recent THEN "brk_early" ELSE "brk"
BreakEnd(w) == IF w = "brk" THEN "mab" ELSE IF w = "brk_early" THEN "mab_early"
               ELSE w

\* ------------------------------------------------------------- hardware
\* periph_module_reset: the UART registers and FIFO return to their defaults
HwResetEna == {}

\* uart_hal_get_intsts_mask: the enabled pending interrupts.  TXFIFO_EMPTY
\* is a level: pending while the FIFO holds fewer bytes than the threshold.
LevelRaw == IF Len(txfifo) < EmptyThresh THEN {"TXFIFO_EMPTY"} ELSE {}
uart_intr_status == (int_raw \cup LevelRaw) \cap int_ena

\* byte at buffer + i; beyond the buffer the read is out of bounds
ByteAt(o, i) == IF i < Len(o.buffer) THEN o.buffer[i + 1] ELSE GARBAGE

\* uart_hal_write_txfifo(hal, buf + from, len, &bytes_written): as many bytes
\* as fit
FifoSpace == FifoLen - Len(txfifo)
BytesWritten(len) == Min(len, FifoSpace)
FifoAfterWrite(o, from, len) ==
  txfifo \o [k \in 1..BytesWritten(len) |->
               [i |-> from + k - 1, b |-> ByteAt(o, from + k - 1)]]

\* len = buf_size - slot_idx, a uint32_t: a negative difference wraps to a
\* length of more than INT32_MAX, which is all that matters to a FIFO write
TxLen(o) == IF o.buf_size >= o.slot_idx THEN o.buf_size - o.slot_idx
            ELSE INT32_MAX

\* ghost: a push of n bytes starting at index `from' continues the packet
PushSeqOk(from, n) == seq_ok /\ (n = 0 \/ from = npushed)
PushCount(n) == Min(npushed + n, MaxBuf + 1)

\* ------------------------------------------------------------- receiver
\* How the receiver follows the packet on the line: "brk" a break is on the
\* line and the handler has not seen it yet; "ok" the handler reset the slot
\* index at the break, before any byte of the packet arrived, and no byte has
\* been lost since; "lost" anything else.
RxSync == {"brk", "ok", "lost"}

\* int dmx_hal_readn_rxfifo(hal, buf, num): the first num characters of the
\* FIFO, or all of them when there are fewer
RxRead(num) == Min(num, Len(rxfifo))

\* the handler reads into p_dmx->rx_buffer (line 66): the k bytes read are
\* stored from the first byte of the buffer
RxStored(buf, k) ==
  [i \in 1..Len(buf) |-> IF i <= k THEN rxfifo[i] ELSE buf[i]]

\* the slot index when the handler looks at the frame indicators (line 76):
\* the bytes of this pass are counted (lines 64-68)
RxCanRead(o) == o.slot_idx < o.buf_size
RxHeadAfterRead(o) ==
  IF RxCanRead(o) THEN o.slot_idx + RxRead(o.buf_size - o.slot_idx)
  ELSE o.slot_idx

\* the registers of the UART after periph_module_reset
HwResetCfg == [baudrate |-> 115200, break_num |-> 10, idle_num |-> 256]

\* ----------------------------------------------------------- RDM packets
RDM_SC == 204
RDM_SUB_SC == 1
RDM_PID_DISC_UNIQUE_BRANCH == 1
RDM_PID_DEVICE_INFO == 96
RDM_CC_DISC_COMMAND == 16
RDM_CC_GET_COMMAND == 32
RDM_RESPONSE_TYPE_ACK == 0
RDM_RESPONSE_TYPE_ACK_TIMER == 1
RDM_RESPONSE_TYPE_NACK_REASON == 2
RDM_RESPONSE_TYPE_ACK_OVERFLOW == 3
RDM_RESPONSE_TYPE_INVALID == 254
RDM_RESPONSE_TYPE_NONE == 255

\* the data buffer of the driver, long enough for the longest packet here
RdmBufLen == 24 + MaxPdl + 2

RdmBroadcastUid == [i \in 1..6 |-> 255]
RdmDeviceUid == <<0, 1, 0, 0, 0, 2>>
RdmSelfUid == <<0, 1, 0, 0, 0, 1>>
rdm_uid_is_broadcast(uid) == uid = RdmBroadcastUid

RECURSIVE SumBytes(_)
SumBytes(s) == IF s = <<>> THEN 0 ELSE s[1] + SumBytes(Tail(s))

\* 16-bit additive checksum over start code .. parameter data
rdm_checksum(s) == SumBytes(s) % 65536

\* the bytes of a packet: 24 bytes of header, parameter data, checksum
rdm_encode(h, pd) ==
  LET body == <<RDM_SC, RDM_SUB_SC, h.message_len>> \o h.dest_uid \o h.src_uid
                \o <<h.tn, h.port_id, h.message_count,
                     h.sub_device \div 256, h.sub_device % 256, h.cc,
                     h.pid \div 256, h.pid % 256, h.pdl>> \o pd
      c == rdm_checksum(body)
  IN  body \o <<c \div 256, c % 256>>

\* copy size bytes out of / into the start of the driver buffer
dmx_read(buf, size) == SubSeq(buf, 1, size)
dmx_write(buf, source, size) ==
  [i \in 1..Len(buf) |-> IF i <= size THEN source[i] ELSE buf[i]]

\* serialise header, parameter data and checksum into the driver buffer
rdm_write(buf, h, pd) == dmx_write(buf, rdm_encode(h, pd), h.message_len + 2)

\* what the receiver leaves in the driver buffer: the packet from index 0
dmx_receive(buf, packet) == dmx_write(buf, packet, Len(packet))

\* decode the header in the driver buffer; ok is the checksum verdict
rdm_read_header(buf) ==
  LET ml == buf[3]
      ok == /\ buf[1] = RDM_SC
            /\ buf[2] = RDM_SUB_SC
            /\ ml >= 24
            /\ ml + 2 <= Len(buf)
            /\ rdm_checksum(SubSeq(buf, 1, ml)) = buf[ml + 1] * 256 + buf[ml + 2]
  IN  [ok |-> ok,
       src_uid |-> SubSeq(buf, 10, 15),
       response_type |-> buf[17],
       message_count |-> buf[18],
       pid |-> buf[22] * 256 + buf[23],
       pdl |-> buf[24]]

\* parameter data by format: "b" bytes as they are, "w" big-endian words
\* stored in the byte order of the processor (little-endian)
RdmFormats == {"b", "w"}
pd_decode(format, raw) ==
  IF format = "w"
  THEN [i \in 1..Len(raw) |->
          IF i % 2 = 1 THEN (IF i + 1 <= Len(raw) THEN raw[i + 1] ELSE raw[i])
          ELSE raw[i - 1]]
  ELSE raw

\* copy the decoded parameter data of the packet in buf to dest, at most
\* size bytes
rdm_read_pd(buf, format, dest, size) ==
  LET dec == pd_decode(format, SubSeq(buf, 25, 24 + buf[24]))
      n == Min(size, Len(dec))
  IN  [i \in 1..Len(dest) |-> IF i <= n THEN dec[i] ELSE dest[i]]

\* the caller's output buffer: a null pointer, or size zeroed bytes
RdmNullPd == [null |-> TRUE, buf |-> <<>>]
RdmPdBuf(size) == [null |-> FALSE, buf |-> [i \in 1..size |-> 0]]

\* the transactions requested, and the responses the line can carry
RdmPd(n, v) == [i \in 1..n |-> v + i]
RdmTransactions ==
  {[dest_uid |-> d, sub_device |-> 0,
    cc |-> IF p = RDM_PID_DISC_UNIQUE_BRANCH THEN RDM_CC_DISC_COMMAND
           ELSE RDM_CC_GET_COMMAND,
    pid |-> p, pdl |-> n, pd |-> RdmPd(n, 4), format |-> f] :
     d \in {RdmDeviceUid, RdmBroadcastUid},
     p \in {RDM_PID_DISC_UNIQUE_BRANCH, RDM_PID_DEVICE_INFO},
     n \in 0..MaxPdl, f \in RdmFormats}
\* no transaction: the arguments of rdm_send_request outside a call
RdmNoTransaction ==
  [dest_uid |-> RdmDeviceUid, sub_device |-> 0, cc |-> RDM_CC_GET_COMMAND,
   pid |-> RDM_PID_DEVICE_INFO, pdl |-> 0, pd |-> <<>>, format |-> "b"]
RdmResponseTypes == RDM_RESPONSE_TYPE_ACK..(RDM_RESPONSE_TYPE_ACK_OVERFLOW + 1)
RdmNoResponse == [kind |-> "unsent", response_type |-> 0, pid |-> 0, pdl |-> 0]
RdmResponses ==
  {[kind |-> "none", response_type |-> 0, pid |-> 0, pdl |-> 0]}
  \cup {[kind |-> "bad", response_type |-> RDM_RESPONSE_TYPE_ACK,
          pid |-> RDM_PID_DEVICE_INFO, pdl |-> n] : n \in 0..MaxPdl}
  \cup {[kind |-> "ok", response_type |-> t, pid |-> p, pdl |-> n] :
          t \in RdmResponseTypes,
          p \in {RDM_PID_DISC_UNIQUE_BRANCH, RDM_PID_DEVICE_INFO},
          n \in 0..MaxPdl}
RdmResponsePd(r) == RdmPd(r.pdl, 16)

\* the bytes a response puts on the line; a "bad" one has a wrong checksum
RdmResponsePacket(r, tn) ==
  LET h == [message_len |-> 24 + r.pdl, dest_uid |-> RdmSelfUid,
            src_uid |-> RdmDeviceUid, tn |-> tn, port_id |-> r.response_type,
            message_count |-> 0, sub_device |-> 0,
            cc |-> RDM_CC_GET_COMMAND + 1, pid |-> r.pid, pdl |-> r.pdl]
      good == rdm_encode(h, RdmResponsePd(r))
  IN  IF r.kind = "none" THEN <<>>
      ELSE IF r.kind = "bad"
      THEN [good EXCEPT ![Len(good)] = (good[Len(good)] + 1) % 256]
      ELSE good

\* the caller's rdm_ack_t: a null pointer, or a struct whose fields hold
\* nothing yet (-1, "unset", the empty UID) until the call assigns them
RdmNullAck ==
  [null |-> TRUE, err |-> "unset", size |-> -1, src_uid |-> <<>>, pid |-> -1,
   type |-> -1, message_count |-> -1, pdl |-> -1, timer |-> -1,
   nack_reason |-> -1]
RdmFreshAck == [RdmNullAck EXCEPT !.null = FALSE]
RdmZeroUid == [i \in 1..6 |-> 0]

\* what the caller asked for, kept to state the claims: broadcast
\* destination, PID, whether mutex, wait and send all succeeded
RdmNoArg == [bcast |-> FALSE, pid |-> 0, sent |-> FALSE]

\* the RDM controller between two transactions, before the first one
RdmIdle ==
  [pc |-> "idle", data |-> [i \in 1..RdmBufLen |-> 0],
   data0 |-> [i \in 1..RdmBufLen |-> 0], old_data |-> <<>>, packet_size |-> 0,
   tn |-> 0, tr |-> RdmNoTransaction, format |-> "b", pd |-> RdmNullPd,
   size |-> 0, resp |-> RdmNoResponse, ret |-> 0, snap |-> FALSE,
   path |-> "init", ack |-> RdmNullAck, arg |-> RdmNoArg, mux |-> 0,
   gives |-> 0,
   task_waiting |-> FALSE, sending |-> FALSE, recv_ms |-> 0,
   waited |-> FALSE, tn_sent |-> -1, tn_prev |-> -1]

\* ghost: the time the last break on the line began (line) and the time the
\* break began that frames the packet of the last accepted send (pkt); the
\* times are followed in the runs that start with the ghost on
BrkOff == [on |-> FALSE, line |-> -DMX_TX_MAX_BRK_TO_BRK_US,
           pkt |-> -DMX_TX_MAX_BRK_TO_BRK_US]
BrkOn == [BrkOff EXCEPT !.on = TRUE]

\* a break begins on the line now
BrkBegins(b) == IF b.on THEN [b EXCEPT !.line = now] ELSE b
\* a packet is accepted: the last break on the line frames it
BrkFrames(b) == IF b.on THEN [b EXCEPT !.pkt = b.line] ELSE b

\* --------------------------------------------------------- RDM responder
DMX_PACKET_SIZE_MAX == 513
RDM_PID_DMX_PERSONALITY == 224
RDM_PID_DMX_START_ADDRESS == 240
RDM_SUB_DEVICE_ROOT == 0

\* the responder before any parameter is registered; op, pid, arg, ok, reply
\* and out describe the last call or request, sa0 and cur0 the values
\* stored before it, sa_via who stored the start address, n alternates with
\* every call
RspInit ==
  [sa_reg |-> FALSE, sa |-> 0, p_reg |-> FALSE, current |-> 0, count |-> 0,
   queue |-> <<>>,
   op |-> "boot", pid |-> 0, arg |-> 0, ok |-> FALSE, reply |-> "none",
   out |-> -1, sa0 |-> 0, cur0 |-> 0, sa_via |-> "none", n |-> 0]

\* --------------------------------------------------------- driver lifecycle
BufferSizeOk(buffer_size) == buffer_size > 0 /\ buffer_size <= DMX_MAX_PACKET_SIZE

\* esp_intr_free(handle): ESP_ERR_INVALID_ARG for a NULL handle
esp_intr_free(handle) == IF handle THEN ESP_OK ELSE ESP_ERR_INVALID_ARG

\* the object as heap_caps_calloc leaves it, with buf_size set (lines 63-79);
\* queue holds the events posted to the queue of line 73
ZeroedObj(buffer_size) ==
  [buf_size |-> buffer_size, buffer |-> <<>>, slot_idx |-> 0, buf_idx |-> 0,
   mode |-> DMX_MODE_RX, tx_last_brk_ts |-> 0, tx_done_sem |-> SEM_NULL,
   intr_handle |-> FALSE, queue |-> <<>>]

\* the object after lines 80-99: p is what malloc left in the buffer
DefaultObj(buffer_size, p) ==
  [buf_size |-> buffer_size, buffer |-> Fill(p, buffer_size),
   slot_idx |-> UINT16_MAX, buf_idx |-> 0, mode |-> DMX_MODE_RX,
   tx_last_brk_ts |-> -DMX_TX_MAX_BRK_TO_BRK_US, tx_done_sem |-> 1,
   intr_handle |-> FALSE, queue |-> <<>>]

\* the object once esp_intr_alloc has succeeded (lines 122-128)
InstalledObj(buffer_size, p) ==
  [DefaultObj(buffer_size, p) EXCEPT !.intr_handle = TRUE]

\* dmx_driver_delete called with the slot holding o: the slot afterwards.
\* esp_intr_free fails for an interrupt that was never allocated and delete
\* returns before freeing anything.
DeleteFrees(o) == esp_intr_free(o.intr_handle) = ESP_OK
SlotAfterDelete(o) == IF DeleteFrees(o) THEN NULL ELSE <<o>>

InstallBufferSizes == {0, 1, MaxBuf, DMX_MAX_PACKET_SIZE + 1}
InstallOutcomes == {"ok", "obj_nomem", "buf_nomem", "sem_nomem", "intr_fail"}

\* if (p_dmx_obj[dmx_num] == NULL) ... else "dmx driver is already installed"
SlotTakenNever == FALSE
SlotTaken == p_dmx_obj # NULL

\* esp_err_t dmx_driver_install(dmx_num, buffer_size, ...)
dmx_driver_install(t, buffer_size, outcome, p) ==
  /\ pc[t] = "idle"
  /\ IF ~BufferSizeOk(buffer_size) THEN
       /\ ev' = Ret(t, "install", ESP_ERR_INVALID_ARG)
       /\ UNCHANGED <<p_dmx_obj, hwvars, halted, live, ghostpkt>>
     ELSE IF SlotTaken THEN
       /\ ev' = Ret(t, "install", ESP_ERR_INVALID_STATE)
       /\ UNCHANGED <<p_dmx_obj, hwvars, halted, live, ghostpkt>>
     ELSE IF outcome = "obj_nomem" THEN
       /\ ev' = Ret(t, "install", ESP_ERR_NO_MEM)
       /\ UNCHANGED <<p_dmx_obj, hwvars, halted, live, ghostpkt>>
     ELSE IF outcome = "buf_nomem" THEN
       /\ p_dmx_obj' = SlotAfterDelete(ZeroedObj(buffer_size))
       /\ ev' = Ret(t, "install", ESP_ERR_NO_MEM)
       /\ UNCHANGED <<hwvars, halted, live, ghostpkt>>
     ELSE IF outcome = "sem_nomem" THEN
       \* xSemaphoreCreateBinary returned NULL; xSemaphoreGive(NULL) panics
       /\ p_dmx_obj' = <<[DefaultObj(buffer_size, p)
                           EXCEPT !.tx_done_sem = SEM_NULL]>>
       /\ halted' = TRUE
       /\ UNCHANGED <<ev, hwvars, live, ghostpkt>>
     ELSE
       /\ hw_enabled' = TRUE
       /\ int_raw' = {}
       /\ UNCHANGED <<txfifo, tx_hw, txd_inv>>
       /\ IF outcome = "intr_fail" THEN
            /\ p_dmx_obj' = SlotAfterDelete(DefaultObj(buffer_size, p))
            /\ int_ena' = int_ena \ UART_INTR_MASK
            /\ ev' = Ret(t, "install", ESP_ERR_NOT_FOUND)
            /\ UNCHANGED <<rts, halted, live, ghostpkt>>
          ELSE
            /\ p_dmx_obj' = <<InstalledObj(buffer_size, p)>>
            /\ int_ena' = DMX_INTR_RX_ALL
            /\ rts' = 1
            /\ ev' = Ret(t, "install", ESP_OK)
            /\ live' = TRUE
            /\ inflight' = FALSE
            /\ npushed' = 0
            /\ seq_ok' = TRUE
            /\ UNCHANGED halted
  /\ UNCHANGED <<taskvars, clock, ghostline, extvars>>

\* a call of install: what the allocators return is drawn when the call
\* gets as far as the first of them
InstallCall(t, buffer_size) ==
  IF BufferSizeOk(buffer_size) /\ ~SlotTaken
    THEN \E oc \in InstallOutcomes, p \in Patterns :
           dmx_driver_install(t, buffer_size, oc, p)
    ELSE dmx_driver_install(t, buffer_size, "ok", 0)

\* esp_err_t dmx_driver_delete(dmx_num)
dmx_driver_delete(t) ==
  /\ pc[t] = "idle"
  /\ IF p_dmx_obj = NULL THEN
       /\ ev' = Ret(t, "delete", ESP_OK)
       /\ UNCHANGED <<p_dmx_obj, hwvars, live, ghostpkt, rxvars, uart_cfg>>
     ELSE IF ~DeleteFrees(obj) THEN
       /\ ev' = Ret(t, "delete", esp_intr_free(obj.intr_handle))
       /\ UNCHANGED <<p_dmx_obj, hwvars, live, ghostpkt, rxvars, uart_cfg>>
     ELSE
       /\ p_dmx_obj' = SlotAfterDelete(obj)
       \* periph_module_disable: the module keeps no state the driver can see;
       \* it is reset when it is enabled again (lines 108-114)
       /\ hw_enabled' = FALSE
       /\ int_ena' = HwResetEna
       /\ int_raw' = {}
       /\ txfifo' = <<>>
       /\ tx_hw' = "idle"
       /\ txd_inv' = FALSE
       /\ rxfifo' = <<>>
       /\ rx_pkt' = <<>>
       /\ rx_sync' = "lost"
       /\ uart_cfg' = HwResetCfg
       /\ ev' = Ret(t, "delete", ESP_OK)
       /\ live' = FALSE
       /\ inflight' = FALSE
       /\ npushed' = 0
       /\ seq_ok' = TRUE
       /\ UNCHANGED rts
  /\ UNCHANGED <<taskvars, clock, halted, ghostline, rdm, rsp, brk_ts>>

Halt ==
  /\ halted' = TRUE
  /\ UNCHANGED <<p_dmx_obj, hwvars, ev, live, ghostpkt, taskvars, clock,
                 ghostline, extvars>>

\* uart_hal_txfifo_rst while the transmitter is between two queued bytes: it
\* finds the FIFO empty and ends as after a last byte, with a break and a mark.
\* When that break begins is not known; it is taken to be late enough.
CutShort == txfifo # <<>> /\ tx_hw = "idle"

\* esp_err_t dmx_set_mode(dmx_num, dmx_mode)
dmx_set_mode(t, dmx_mode) ==
  /\ pc[t] = "idle"
  /\ IF p_dmx_obj = NULL THEN
       /\ ev' = Ret(t, "set_mode", ESP_ERR_INVALID_STATE)
       /\ UNCHANGED <<p_dmx_obj, hwvars, halted, ghostpkt, wire, rxvars, brk_ts>>
     ELSE IF obj.mode = dmx_mode THEN
       /\ ev' = Ret(t, "set_mode", ESP_OK)
       /\ UNCHANGED <<p_dmx_obj, hwvars, halted, ghostpkt, wire, rxvars, brk_ts>>
     ELSE IF dmx_mode = DMX_MODE_RX THEN
       /\ int_ena' = (int_ena \ DMX_INTR_TX_ALL) \cup DMX_INTR_RX_ALL
       /\ int_raw' = {}
       /\ p_dmx_obj' = <<[obj EXCEPT !.slot_idx = UINT16_MAX, !.buf_idx = 0,
                                     !.mode = DMX_MODE_RX]>>
       /\ rxfifo' = <<>>
       /\ rx_pkt' = <<>>
       /\ rx_sync' = "lost"
       /\ rts' = 1
       /\ ev' = Ret(t, "set_mode", ESP_OK)
       /\ inflight' = FALSE
       /\ UNCHANGED <<hw_enabled, txfifo, tx_hw, txd_inv, halted, npushed,
                      seq_ok, wire, brk_ts>>
     ELSE IF obj.tx_done_sem = SEM_NULL THEN
       \* xSemaphoreGive(NULL)
       /\ int_ena' = int_ena \ DMX_INTR_RX_ALL
       /\ int_raw' = {}
       /\ p_dmx_obj' = <<[obj EXCEPT !.slot_idx = 0, !.mode = DMX_MODE_TX]>>
       /\ halted' = TRUE
       /\ UNCHANGED <<hw_enabled, txfifo, tx_hw, txd_inv, rts, ev, ghostpkt,
                      wire, rxvars, brk_ts>>
     ELSE
       /\ int_ena' = int_ena \ DMX_INTR_RX_ALL
       /\ int_raw' = {}
       /\ p_dmx_obj' = <<[obj EXCEPT !.slot_idx = 0, !.mode = DMX_MODE_TX,
                                     !.tx_done_sem = 1]>>
       /\ txfifo' = <<>>
       /\ tx_hw' = IF CutShort THEN "brk" ELSE tx_hw
       /\ wire' = IF CutShort THEN "brk" ELSE wire
       /\ brk_ts' = IF CutShort THEN BrkBegins(brk_ts) ELSE brk_ts
       /\ rts' = 0
       /\ ev' = Ret(t, "set_mode", ESP_OK)
       /\ inflight' = FALSE
       /\ npushed' = 0
       /\ seq_ok' = TRUE
       /\ UNCHANGED <<hw_enabled, txd_inv, halted, rxvars>>
  /\ UNCHANGED <<taskvars, clock, live, slot_recent, uart_cfg, rdm, rsp>>

\* esp_err_t dmx_write_packet(dmx_num, buffer, size): the caller's buffer
\* holds the byte p in every slot
Overwrite(old, p, size) ==
  [i \in 1..Len(old) |-> IF i <= size THEN p ELSE old[i]]
WriteSizes == {0, 1, MaxBuf + 1}

\* if (p_dmx_obj[dmx_num]->mode != DMX_MODE_TX) return ESP_ERR_INVALID_STATE
WriteModeOkAlways(o) == TRUE
WriteModeOk(o) == o.mode = DMX_MODE_TX

dmx_write_packet(t, p, size) ==
  /\ pc[t] = "idle"
  /\ IF p_dmx_obj = NULL THEN
       /\ ev' = Ret(t, "write_packet", ESP_ERR_INVALID_STATE)
       /\ UNCHANGED p_dmx_obj
     ELSE IF ~(size <= obj.buf_size) THEN
       /\ ev' = Ret(t, "write_packet", ESP_ERR_INVALID_ARG)
       /\ UNCHANGED p_dmx_obj
     ELSE IF size = 0 THEN
       /\ ev' = Ret(t, "write_packet", ESP_OK)
       /\ UNCHANGED p_dmx_obj
     ELSE IF ~WriteModeOk(obj) THEN
       /\ ev' = Ret(t, "write_packet", ESP_ERR_INVALID_STATE)
       /\ UNCHANGED p_dmx_obj
     ELSE
       /\ p_dmx_obj' = <<[obj EXCEPT !.buffer = Overwrite(@, p, size)]>>
       /\ ev' = Ret(t, "write_packet", ESP_OK)
  /\ UNCHANGED <<hwvars, halted, ghostpkt, taskvars, clock, live, ghostline,
                 extvars>>

\* ------------------------------------------------- hardware configuration
\* (int) ceil(num * (1000000.0 / baudrate)): a number of bit times as
\* microseconds, rounded up
CeilDiv(a, b) == (a + b - 1) \div b
get_brk_us(baudrate, break_num) == CeilDiv(break_num * 1000000, baudrate)
get_mab_us(baudrate, idle_num) == CeilDiv(idle_num * 1000000, baudrate)

\* the checks of the three setters and of dmx_param_config
BaudrateOkNoMax(baudrate) == baudrate >= DMX_MIN_BAUDRATE
BaudrateOk(baudrate) ==
  baudrate >= DMX_MIN_BAUDRATE /\ baudrate <= DMX_MAX_BAUDRATE
BreakOk(baudrate, break_num) ==
  get_brk_us(baudrate, break_num) >= DMX_TX_MIN_SPACE_FOR_BRK_US
MabOk(baudrate, idle_num) ==
  /\ get_mab_us(baudrate, idle_num) >= DMX_TX_MIN_MRK_AFTER_BRK_US
  /\ get_mab_us(baudrate, idle_num) <= DMX_TX_MAX_MRK_AFTER_BRK_US

\* what the callers pass: a uint32_t baudrate, a uint8_t break_num, a
\* uint16_t idle_num
Baudrates == {DMX_MIN_BAUDRATE - 1, DMX_MIN_BAUDRATE, 250000,
              DMX_MAX_BAUDRATE, DMX_MAX_BAUDRATE + 1}
BreakNums == {0, 22, 23, 44, UINT8_MAX}
IdleNums == {0, 2, 3, IDLE_NUM_MAX, IDLE_NUM_MAX + 1}

\* the setters touch the UART registers only
cfg_only ==
  UNCHANGED <<p_dmx_obj, hwvars, taskvars, clock, halted, ghostline, live,
              ghostpkt, rxvars, rdm, rsp, brk_ts>>

\* esp_err_t dmx_set_baudrate(dmx_num, baudrate)
dmx_set_baudrate(t, baudrate) ==
  /\ pc[t] = "idle"
  /\ IF ~BaudrateOk(baudrate) THEN
       /\ ev' = Ret(t, "set_baudrate", ESP_ERR_INVALID_ARG)
       /\ UNCHANGED uart_cfg
     ELSE
       /\ uart_cfg' = [uart_cfg EXCEPT !.baudrate = baudrate]
       /\ ev' = Ret(t, "set_baudrate", ESP_OK)
  /\ cfg_only

\* esp_err_t dmx_set_break_num(dmx_num, break_num)
dmx_set_break_num(t, break_num) ==
  /\ pc[t] = "idle"
  /\ IF ~BreakOk(uart_cfg.baudrate, break_num) THEN
       /\ ev' = Ret(t, "set_break_num", ESP_ERR_INVALID_ARG)
       /\ UNCHANGED uart_cfg
     ELSE
       /\ uart_cfg' = [uart_cfg EXCEPT !.break_num = break_num]
       /\ ev' = Ret(t, "set_break_num", ESP_OK)
  /\ cfg_only

\* esp_err_t dmx_set_idle_num(dmx_num, idle_num)
dmx_set_idle_num(t, idle_num) ==
  /\ pc[t] = "idle"
  /\ IF ~(idle_num <= IDLE_NUM_MAX) THEN
       /\ ev' = Ret(t, "set_idle_num", ESP_ERR_INVALID_ARG)
       /\ UNCHANGED uart_cfg
     ELSE IF ~MabOk(uart_cfg.baudrate, idle_num) THEN
       /\ ev' = Ret(t, "set_idle_num", ESP_ERR_INVALID_ARG)
       /\ UNCHANGED uart_cfg
     ELSE
       /\ uart_cfg' = [uart_cfg EXCEPT !.idle_num = idle_num]
       /\ ev' = Ret(t, "set_idle_num", ESP_OK)
  /\ cfg_only

\* esp_err_t dmx_param_config(dmx_num, dmx_config)
dmx_param_config(t, dmx_config) ==
  /\ pc[t] = "idle"
  /\ IF \/ ~(dmx_config.idle_num <= IDLE_NUM_MAX)
        \/ ~BaudrateOk(dmx_config.baudrate)
        \/ ~BreakOk(dmx_config.baudrate, dmx_config.break_num)
        \/ ~MabOk(dmx_config.baudrate, dmx_config.idle_num) THEN
       /\ ev' = Ret(t, "param_config", ESP_ERR_INVALID_ARG)
       /\ UNCHANGED <<uart_cfg, hw_enabled, txfifo, tx_hw, wire, rxvars>>
     ELSE
       /\ hw_enabled' = TRUE
       /\ uart_cfg' = dmx_config
       /\ rxfifo' = <<>>
       /\ rx_pkt' = <<>>
       /\ rx_sync' = "lost"
       /\ txfifo' = <<>>
       /\ tx_hw' = IF CutShort THEN "brk" ELSE tx_hw
       /\ wire' = IF CutShort THEN "brk" ELSE wire
       /\ ev' = Ret(t, "param_config", ESP_OK)
  /\ UNCHANGED <<p_dmx_obj, int_ena, int_raw, txd_inv, rts, taskvars, clock,
                 halted, slot_recent, live, ghostpkt, rdm, rsp, brk_ts>>

\* esp_err_t dmx_wait_tx_done(dmx_num, ticks_to_wait): xSemaphoreTake with
\* the timeout, then xSemaphoreGive
portMAX_DELAY == "portMAX_DELAY"
WaitTicks == {"0", "1", portMAX_DELAY}

dmx_wait_tx_done(t, ticks_to_wait) ==
  /\ pc[t] = "idle"
  /\ IF p_dmx_obj = NULL THEN
       /\ ev' = Ret(t, "wait_tx_done", ESP_ERR_INVALID_STATE)
       /\ UNCHANGED <<p_dmx_obj, pc, halted>>
     ELSE IF obj.tx_done_sem = SEM_NULL THEN
       /\ halted' = TRUE
       /\ UNCHANGED <<p_dmx_obj, pc, ev>>
     ELSE IF obj.tx_done_sem = 1 THEN
       /\ p_dmx_obj' = <<[obj EXCEPT !.tx_done_sem = 0]>>
       /\ pc' = [pc EXCEPT ![t] = "wait_give"]
       /\ UNCHANGED <<ev, halted>>
     ELSE IF ticks_to_wait = "0" THEN
       /\ ev' = Ret(t, "wait_tx_done", ESP_ERR_TIMEOUT)
       /\ UNCHANGED <<p_dmx_obj, pc, halted>>
     ELSE
       /\ pc' = [pc EXCEPT ![t] = IF ticks_to_wait = portMAX_DELAY
                                    THEN "wait_forever" ELSE "wait_timed"]
       /\ UNCHANGED <<p_dmx_obj, ev, halted>>
  /\ UNCHANGED <<hwvars, ghostpkt, loc_now, clock, live, ghostline, extvars>>

\* the blocked xSemaphoreTake gets the semaphore
wait_take(t) ==
  /\ pc[t] \in {"wait_forever", "wait_timed"}
  /\ IF p_dmx_obj = NULL THEN
       Halt
     ELSE
       /\ obj.tx_done_sem = 1
       /\ p_dmx_obj' = <<[obj EXCEPT !.tx_done_sem = 0]>>
       /\ pc' = [pc EXCEPT ![t] = "wait_give"]
       /\ UNCHANGED <<hwvars, ev, halted, ghostpkt, loc_now, clock, live,
                      ghostline, extvars>>

\* the blocked xSemaphoreTake runs out of ticks
wait_timeout(t) ==
  /\ pc[t] = "wait_timed"
  /\ pc' = [pc EXCEPT ![t] = "idle"]
  /\ ev' = Ret(t, "wait_tx_done", ESP_ERR_TIMEOUT)
  /\ UNCHANGED <<p_dmx_obj, hwvars, halted, ghostpkt, loc_now, clock, live,
                 ghostline, extvars>>

\* xSemaphoreGive(tx_done_sem); return ESP_OK
wait_give(t) ==
  /\ pc[t] = "wait_give"
  /\ IF p_dmx_obj = NULL THEN
       Halt
     ELSE
       /\ p_dmx_obj' = <<[obj EXCEPT !.tx_done_sem = 1]>>
       /\ pc' = [pc EXCEPT ![t] = "idle"]
       /\ ev' = Ret(t, "wait_tx_done", ESP_OK)
       /\ UNCHANGED <<hwvars, halted, ghostpkt, loc_now, clock, live,
                      ghostline, extvars>>

\* ----------------------------------------------------------------- send
\* DMX_CHECK(p_dmx_obj[dmx_num]->mode == DMX_MODE_TX, ...)
TxModeOkAlways(o) == TRUE
TxModeOk(o) == o.mode = DMX_MODE_TX

\* xSemaphoreTake(tx_done_sem, 0) succeeds
TxSemFree(o) == o.tx_done_sem = 1

\* now - tx_last_brk_ts >= DMX_TX_MAX_BRK_TO_BRK_US
NeedsBreak(o, n) == n - o.tx_last_brk_ts >= DMX_TX_MAX_BRK_TO_BRK_US

\* esp_err_t dmx_tx_packet(dmx_num), up to the inversion of the line
dmx_tx_packet(t) ==
  /\ pc[t] = "idle"
  /\ IF p_dmx_obj = NULL THEN
       /\ ev' = Ret(t, "tx_packet", ESP_ERR_INVALID_STATE)
       /\ UNCHANGED <<p_dmx_obj, txd_inv, taskvars, halted, ghostpkt,
                      ghostline, brk_ts>>
     ELSE IF ~TxModeOk(obj) THEN
       /\ ev' = Ret(t, "tx_packet", ESP_ERR_INVALID_STATE)
       /\ UNCHANGED <<p_dmx_obj, txd_inv, taskvars, halted, ghostpkt,
                      ghostline, brk_ts>>
     ELSE IF obj.tx_done_sem = SEM_NULL THEN
       /\ halted' = TRUE
       /\ UNCHANGED <<p_dmx_obj, txd_inv, taskvars, ev, ghostpkt, ghostline,
                      brk_ts>>
     ELSE IF ~TxSemFree(obj) THEN
       /\ ev' = Ret(t, "tx_packet", ESP_FAIL)
       /\ UNCHANGED <<p_dmx_obj, txd_inv, taskvars, halted, ghostpkt,
                      ghostline, brk_ts>>
     ELSE
       /\ p_dmx_obj' = <<[obj EXCEPT !.tx_done_sem = 0]>>
       /\ inflight' = TRUE
       /\ npushed' = 0
       /\ seq_ok' = TRUE
       /\ IF NeedsBreak(obj, now) THEN
            /\ txd_inv' = TRUE
            /\ wire' = BreakEdge
            /\ brk_ts' = BrkFrames(BrkBegins(brk_ts))
            /\ loc_now' = [loc_now EXCEPT ![t] = now]
            /\ pc' = [pc EXCEPT ![t] = "tx_brk"]
            /\ UNCHANGED slot_recent
          ELSE
            /\ pc' = [pc EXCEPT ![t] = "tx_fifo"]
            /\ brk_ts' = BrkFrames(brk_ts)
            /\ UNCHANGED <<txd_inv, ghostline, loc_now>>
       /\ UNCHANGED <<ev, halted>>
  /\ UNCHANGED <<hw_enabled, int_ena, int_raw, txfifo, tx_hw, rts, clock,
                 live, rxvars, uart_cfg, rdm, rsp>>

\* ets_delay_us(brk_us) is over: un-invert the line (line 605)
tx_brk(t) ==
  /\ pc[t] = "tx_brk"
  /\ txd_inv' = FALSE
  /\ wire' = BreakEnd(wire)
  /\ pc' = [pc EXCEPT ![t] = "tx_mab"]
  /\ UNCHANGED <<p_dmx_obj, hw_enabled, int_ena, int_raw, txfifo, tx_hw, rts,
                 loc_now, ev, clock, halted, slot_recent, live, ghostpkt,
                 extvars>>

\* ets_delay_us(mab_us) is over: tx_last_brk_ts = now (line 608)
tx_mab(t) ==
  /\ pc[t] = "tx_mab"
  /\ IF p_dmx_obj = NULL THEN
       Halt
     ELSE
       /\ p_dmx_obj' = <<[obj EXCEPT !.tx_last_brk_ts = loc_now[t]]>>
       /\ pc' = [pc EXCEPT ![t] = "tx_fifo"]
       /\ loc_now' = [loc_now EXCEPT ![t] = 0]
       /\ UNCHANGED <<hwvars, ev, clock, halted, ghostline, live, ghostpkt,
                      extvars>>

\* write data to tx FIFO (lines 611-618): slot_idx = bytes_written
SlotIdxAfterSend(o, written) == written

tx_fifo(t) ==
  /\ pc[t] = "tx_fifo"
  /\ IF p_dmx_obj = NULL THEN
       Halt
     ELSE
       LET written == BytesWritten(TxLen(obj)) IN
       /\ txfifo' = FifoAfterWrite(obj, obj.slot_idx, TxLen(obj))
       /\ p_dmx_obj' = <<[obj EXCEPT !.slot_idx = SlotIdxAfterSend(obj, written)]>>
       /\ seq_ok' = PushSeqOk(obj.slot_idx, written)
       /\ npushed' = PushCount(written)
       /\ pc' = [pc EXCEPT ![t] = "tx_ena"]
       /\ UNCHANGED <<hw_enabled, int_ena, int_raw, tx_hw, txd_inv, rts,
                      loc_now, ev, clock, halted, ghostline, live, inflight,
                      extvars>>

\* enable tx interrupts (lines 620-625) and return
tx_ena(t) ==
  /\ pc[t] = "tx_ena"
  /\ int_ena' = int_ena \cup DMX_INTR_TX_ALL
  /\ pc' = [pc EXCEPT ![t] = "idle"]
  /\ ev' = Ret(t, "tx_packet", ESP_OK)
  /\ UNCHANGED <<p_dmx_obj, hw_enabled, int_raw, txfifo, tx_hw, txd_inv, rts,
                 loc_now, clock, halted, ghostline, live, ghostpkt, extvars>>

\* ------------------------------------------------------ interrupt handler
\* the frame has been fully written (line 36)
FrameWritten(o, idx) == idx = o.buf_size

\* xSemaphoreGiveFromISR in the TX_DONE branch (lines 46-50): the semaphore
\* is binary, giving it when it is given already changes nothing
SemAfterTxDoneCounting(o) == o.tx_done_sem + 1
SemAfterTxDone(o) == 1

\* the interrupt mask after the receive branch (lines 85-96): the timeout
\* interrupt is disabled by a timeout and enabled by any other receive event
ToutMaskAfterRxKept(status, ena) == ena
ToutMaskAfterRx(status, ena) ==
  IF "RXFIFO_TOUT" \in status THEN ena \ {"RXFIFO_TOUT"}
  ELSE ena \cup {"RXFIFO_TOUT"}

\* one pass of the while loop of dmx_default_intr_handler
dmx_default_intr_handler ==
  /\ p_dmx_obj # NULL
  /\ obj.intr_handle
  /\ hw_enabled
  /\ uart_intr_status # {}
  /\ IF uart_intr_status \cap {"TXFIFO_EMPTY", "TX_BRK_IDLE"} # {} THEN
       LET written == BytesWritten(TxLen(obj))
           idx == (obj.slot_idx + written) % (UINT16_MAX + 1) IN
       /\ txfifo' = FifoAfterWrite(obj, obj.slot_idx, TxLen(obj))
       /\ p_dmx_obj' = <<[obj EXCEPT !.slot_idx = idx]>>
       /\ int_ena' = IF FrameWritten(obj, idx)
                       THEN int_ena \ {"TXFIFO_EMPTY", "TX_BRK_IDLE"}
                       ELSE int_ena
       /\ int_raw' = int_raw \ {"TXFIFO_EMPTY", "TX_BRK_IDLE"}
       /\ seq_ok' = PushSeqOk(obj.slot_idx, written)
       /\ npushed' = PushCount(written)
       /\ UNCHANGED <<inflight, rxvars>>
     ELSE IF "TX_DONE" \in uart_intr_status THEN
       /\ p_dmx_obj' = <<[obj EXCEPT !.tx_done_sem =
                            IF @ = SEM_NULL THEN @ ELSE SemAfterTxDone(obj)]>>
       /\ int_raw' = int_raw \ {"TX_DONE"}
       /\ inflight' = (inflight /\ ~(obj.slot_idx = obj.buf_size
                                      /\ txfifo = <<>>))
       /\ UNCHANGED <<int_ena, txfifo, npushed, seq_ok, rxvars>>
     ELSE IF "TX_BRK_DONE" \in uart_intr_status THEN
       /\ int_raw' = int_raw \ {"TX_BRK_DONE"}
       /\ UNCHANGED <<p_dmx_obj, int_ena, txfifo, ghostpkt, rxvars>>
     ELSE IF uart_intr_status \cap RxDataIntr # {} THEN
       LET k == IF RxCanRead(obj) THEN RxRead(obj.buf_size - obj.slot_idx)
                ELSE 0
           brk == uart_intr_status \cap RxBreakIntr # {}
           left == IF RxCanRead(obj) THEN SubSeq(rxfifo, k + 1, Len(rxfifo))
                   ELSE <<>> IN
       /\ p_dmx_obj' = <<[obj EXCEPT
                           !.buffer = RxStored(@, k),
                           !.slot_idx = IF brk THEN 0 ELSE RxHeadAfterRead(obj)]>>
       /\ rxfifo' = left
       /\ int_ena' = ToutMaskAfterRx(uart_intr_status, int_ena)
       /\ int_raw' = int_raw \ RxDataIntr
       /\ rx_sync' = IF ~brk THEN rx_sync
                      ELSE IF rx_sync = "brk" /\ left = <<>> THEN "ok"
                      ELSE "lost"
       /\ UNCHANGED <<txfifo, ghostpkt, rx_pkt>>
     ELSE IF uart_intr_status \cap RxErrIntr # {} THEN
       /\ p_dmx_obj' = <<[obj EXCEPT !.slot_idx = UINT16_MAX]>>
       /\ rxfifo' = <<>>
       /\ int_raw' = int_raw \ RxErrIntr
       /\ rx_sync' = "lost"
       /\ UNCHANGED <<int_ena, txfifo, ghostpkt, rx_pkt>>
     ELSE
       \* an interrupt no branch handles is not cleared: the loop goes on
       UNCHANGED <<p_dmx_obj, int_ena, int_raw, txfifo, ghostpkt, rxvars>>
  /\ UNCHANGED <<hw_enabled, tx_hw, txd_inv, rts, taskvars, ev, clock, halted,
                 ghostline, live, uart_cfg, rdm, rsp, brk_ts>>

\* ------------------------------------------------------ UART transmitter
\* The transmitter sends the FIFO's bytes in order; when the FIFO runs empty
\* it raises TX_DONE and sends a break and then a mark (esp_dmx.c:574-585).
hw_shift ==
  /\ hw_enabled
  /\ tx_hw = "idle"
  /\ txfifo # <<>>
  /\ txfifo' = Tail(txfifo)
  /\ slot_recent' = TRUE
  /\ LET sc == Head(txfifo).i = 0
         framed == wire \in {"mab", "mab_early"} /\ ~txd_inv
         last == Tail(txfifo) = <<>> IN
     /\ wire' = IF sc /\ ~framed THEN "sc_unframed"
                ELSE IF sc /\ wire = "mab_early" THEN "sc_early"
                ELSE IF last THEN "brk_early"
                ELSE "data"
     /\ brk_ts' = IF last THEN BrkBegins(brk_ts) ELSE brk_ts
     /\ IF last THEN
          /\ int_raw' = int_raw \cup {"TX_DONE"}
          /\ tx_hw' = "brk"
        ELSE
          UNCHANGED <<int_raw, tx_hw>>
  /\ UNCHANGED <<p_dmx_obj, hw_enabled, int_ena, txd_inv, rts, taskvars, ev,
                 clock, halted, live, ghostpkt, rxvars, uart_cfg, rdm, rsp>>

\* the hardware break is over
hw_brk_done ==
  /\ hw_enabled
  /\ tx_hw = "brk"
  /\ tx_hw' = "mab"
  /\ int_raw' = int_raw \cup {"TX_BRK_DONE"}
  /\ wire' = IF wire = "brk" THEN "mab" ELSE "mab_early"
  /\ UNCHANGED <<p_dmx_obj, hw_enabled, int_ena, txfifo, txd_inv, rts,
                 taskvars, ev, clock, halted, slot_recent, live, ghostpkt,
                 extvars>>

\* the idle time after the hardware break is over
hw_idle_done ==
  /\ hw_enabled
  /\ tx_hw = "mab"
  /\ tx_hw' = "idle"
  /\ int_raw' = int_raw \cup {"TX_BRK_IDLE"}
  /\ UNCHANGED <<p_dmx_obj, hw_enabled, int_ena, txfifo, txd_inv, rts,
                 taskvars, ev, clock, halted, ghostline, live, ghostpkt,
                 extvars>>

\* --------------------------------------------------------- UART receiver
\* What the line brings while the port receives.  The remote transmitter
\* sends a break, then bytes; the receiver queues the bytes and raises the
\* interrupts the handler tests.
rx_env ==
  /\ hw_enabled
  /\ p_dmx_obj # NULL
  /\ obj.mode = DMX_MODE_RX
  /\ UNCHANGED <<p_dmx_obj, hw_enabled, int_ena, txfifo, tx_hw, txd_inv, rts,
                 taskvars, ev, clock, halted, ghostline, live, ghostpkt,
                 uart_cfg, rdm, rsp, brk_ts>>

\* a break: the packet before it is over
rx_break ==
  /\ rx_env
  /\ int_raw' = int_raw \cup {"BRK_DET"}
  /\ rx_pkt' = <<>>
  /\ rx_sync' = "brk"
  /\ UNCHANGED rxfifo

\* a byte: queued, or lost when the FIFO is full
rx_byte(b) ==
  /\ rx_env
  /\ rx_pkt' = IF Len(rx_pkt) <= MaxBuf THEN Append(rx_pkt, b) ELSE rx_pkt
  /\ IF Len(rxfifo) < RxFifoLen THEN
       /\ rxfifo' = Append(rxfifo, b)
       /\ int_raw' = IF Len(rxfifo) + 1 >= RxFullThresh
                       THEN int_raw \cup {"RXFIFO_FULL"} ELSE int_raw
       /\ rx_sync' = IF rx_sync = "ok" THEN "ok" ELSE "lost"
     ELSE
       /\ int_raw' = int_raw \cup {"RXFIFO_OVF"}
       /\ rx_sync' = "lost"
       /\ UNCHANGED rxfifo

\* the line stays idle while bytes are queued
rx_tout ==
  /\ rx_env
  /\ rxfifo # <<>>
  /\ int_raw' = int_raw \cup {"RXFIFO_TOUT"}
  /\ UNCHANGED rxvars

\* a byte with a parity error
rx_parity ==
  /\ rx_env
  /\ int_raw' = int_raw \cup {"PARITY_ERR"}
  /\ rx_sync' = "lost"
  /\ UNCHANGED <<rxfifo, rx_pkt>>

\* every UART interrupt is raised at once
intr_storm ==
  /\ rx_env
  /\ int_raw' = UART_INTR_MASK
  /\ rx_sync' = "lost"
  /\ UNCHANGED <<rxfifo, rx_pkt>>

\* esp_timer_get_time() advances
TickSteps == {DMX_TX_MAX_BRK_TO_BRK_US}
Tick ==
  /\ nticks < MaxTicks
  /\ \E dt \in TickSteps : now' = now + dt
  /\ nticks' = nticks + 1
  /\ slot_recent' = FALSE
  /\ UNCHANGED <<p_dmx_obj, hwvars, taskvars, ev, halted, wire, live,
                 ghostpkt, extvars>>

\* half of DMX_TX_MAX_BRK_TO_BRK_US passes
HalfTick ==
  /\ nticks < MaxHalfTicks
  /\ now' = now + DMX_TX_MAX_BRK_TO_BRK_US \div 2
  /\ nticks' = nticks + 1
  /\ slot_recent' = FALSE
  /\ UNCHANGED <<p_dmx_obj, hwvars, taskvars, ev, halted, wire, live,
                 ghostpkt, extvars>>

\* ---------------------------------------------------------- RDM controller
\* the application writes a DMX frame into the driver buffer; the results
\* of the request before it are the caller's and are no longer followed
rdm_app_write(v) ==
  /\ ~halted
  /\ rdm.pc = "idle"
  /\ rdm' = [RdmIdle EXCEPT !.data = [i \in 1..RdmBufLen |-> v],
                            !.tn = rdm.tn, !.tn_sent = rdm.tn_sent,
                            !.tn_prev = rdm.tn_prev, !.path = "write"]
  /\ UNCHANGED <<p_dmx_obj, hwvars, taskvars, ev, clock, halted, ghostline,
                 live, ghostpkt, rxvars, uart_cfg, rsp, brk_ts>>

\* the parameter data is copied out under this condition on the caller's pd
PdCopyCond(pd) == pd.null

\* the value returned after a response with a valid header
rdm_return_value_pdl(header) ==
  IF header.response_type = RDM_RESPONSE_TYPE_ACK THEN header.pdl ELSE 0
rdm_return_value(header) ==
  IF header.response_type = RDM_RESPONSE_TYPE_ACK
  THEN (IF header.pdl = 0 THEN 1 ELSE header.pdl)
  ELSE 0

\* the transaction number a request carries
rdm_get_transaction_num_zero(driver) == 0
rdm_get_transaction_num(driver) == driver.tn

\* dmx_send of an RDM request counts the transaction (8-bit counter)
TnAfterSend(tn) == (tn + 1) % 256

\* no response is expected from a request like this
NoResponseExpectedAnyPid(tr) == rdm_uid_is_broadcast(tr.dest_uid)
NoResponseExpected(tr) ==
  rdm_uid_is_broadcast(tr.dest_uid) /\ tr.pid # RDM_PID_DISC_UNIQUE_BRANCH

\* the ack struct of the paths that return early
AckNotSent(ack) ==
  IF ack.null THEN ack
  ELSE [ack EXCEPT !.err = "DMX_OK", !.size = 0, !.src_uid = RdmZeroUid,
                   !.pid = 0, !.type = RDM_RESPONSE_TYPE_NONE,
                   !.message_count = 0, !.pdl = 0]
AckPacket(ack, err, size) ==
  IF ack.null THEN ack ELSE [ack EXCEPT !.err = err, !.size = size]
AckNoResponseInvalid(ack) ==
  IF ack.null THEN ack
  ELSE [ack EXCEPT !.src_uid = RdmZeroUid, !.pid = 0,
                   !.type = RDM_RESPONSE_TYPE_INVALID,
                   !.message_count = 0, !.pdl = 0]
AckNoResponse(ack) ==
  IF ack.null THEN ack
  ELSE [ack EXCEPT !.src_uid = RdmZeroUid, !.pid = 0,
                   !.type = RDM_RESPONSE_TYPE_NONE,
                   !.message_count = 0, !.pdl = 0]
AckBadHeaderNone(ack) == AckNoResponse(ack)
AckBadHeader(ack) ==
  IF ack.null THEN ack
  ELSE [ack EXCEPT !.src_uid = RdmZeroUid, !.pid = 0,
                   !.type = RDM_RESPONSE_TYPE_INVALID,
                   !.message_count = 0, !.pdl = 0]

rdm_response_type_is_valid(type) ==
  type \in RDM_RESPONSE_TYPE_ACK..RDM_RESPONSE_TYPE_ACK_OVERFLOW

\* the 16-bit word at the start of the parameter data in buf, as
\* rdm_read_pd stores it with the format "w"; -1 if there is none
RdmWordPd(buf) ==
  IF buf[24] >= 2 THEN buf[25] * 256 + buf[26] ELSE -1

\* the ack struct after a response with a valid header
AckResponse(ack, header, buf) ==
  IF ack.null THEN ack
  ELSE LET a1 == [ack EXCEPT !.src_uid = header.src_uid, !.pid = header.pid,
                             !.message_count = header.message_count]
       IN  IF ~rdm_response_type_is_valid(header.response_type)
           THEN [a1 EXCEPT !.type = RDM_RESPONSE_TYPE_INVALID,
                           !.pdl = header.pdl]
           ELSE IF header.response_type = RDM_RESPONSE_TYPE_ACK_TIMER
           THEN [a1 EXCEPT !.type = header.response_type,
                           !.timer = IF RdmWordPd(buf) < 0 THEN -1
                                     ELSE RdmWordPd(buf) * 10]
           ELSE IF header.response_type = RDM_RESPONSE_TYPE_NACK_REASON
           THEN [a1 EXCEPT !.type = header.response_type,
                           !.nack_reason = RdmWordPd(buf)]
           ELSE [a1 EXCEPT !.type = header.response_type,
                           !.pdl = header.pdl]

\* the hold count of the recursive mutex driver->mux
xSemaphoreTakeRecursive(mux) == mux + 1
xSemaphoreGiveRecursiveLost(mux) == mux
xSemaphoreGiveRecursive(mux) == mux - 1

\* rdm_send_request up to the point where it waits for the response
rdm_send_request(tr, pd, size, ack, mux_ok, sent_ok, send_ok) ==
  /\ ~halted
  /\ rdm.pc = "idle"
  /\ LET header == [message_len |-> 24 + tr.pdl, dest_uid |-> tr.dest_uid,
                    src_uid |-> RdmSelfUid,
                    tn |-> rdm_get_transaction_num(rdm), port_id |-> 0 + 1,
                    message_count |-> 0, sub_device |-> tr.sub_device,
                    cc |-> tr.cc, pid |-> tr.pid, pdl |-> tr.pdl]
         packet_size == header.message_len + 2
         old_data == dmx_read(rdm.data, packet_size)
         sent == rdm_write(rdm.data, header, tr.pd)
         call == [rdm EXCEPT !.data0 = rdm.data, !.format = tr.format,
                             !.tr = RdmNoTransaction, !.pd = pd,
                             !.size = size, !.resp = RdmNoResponse,
                             !.old_data = <<>>, !.packet_size = 0,
                             !.snap = FALSE, !.ret = 0, !.ack = ack,
                             !.arg = [bcast |-> tr.dest_uid = RdmBroadcastUid,
                                      pid |-> tr.pid,
                                      sent |-> mux_ok /\ sent_ok /\ send_ok],
                             !.recv_ms = 0, !.waited = FALSE, !.gives = 0]
         taken == xSemaphoreTakeRecursive(rdm.mux)
         snapped == [call EXCEPT !.old_data = old_data,
                                !.packet_size = packet_size, !.snap = TRUE]
         on_line == [snapped EXCEPT !.tn = TnAfterSend(rdm.tn),
                                   !.tn_sent = header.tn,
                                   !.tn_prev = rdm.tn_sent, !.sending = TRUE]
     IN  IF ~mux_ok
         THEN rdm' = [call EXCEPT !.path = "mux"]
         ELSE IF ~sent_ok
         THEN rdm' = [call EXCEPT !.mux = xSemaphoreGiveRecursive(taken),
                                  !.gives = 1, !.path = "busy"]
         ELSE IF ~send_ok
         THEN rdm' = [snapped EXCEPT
                        !.data = dmx_write(sent, old_data, packet_size),
                        !.ack = AckNotSent(ack),
                        !.mux = xSemaphoreGiveRecursive(taken), !.gives = 1,
                        !.path = "send"]
         ELSE IF NoResponseExpected(tr)
         THEN rdm' = [on_line EXCEPT
                        !.sending = FALSE, !.waited = TRUE,
                        !.data = dmx_write(sent, old_data, packet_size),
                        !.ack = AckNotSent(ack),
                        !.mux = xSemaphoreGiveRecursive(taken), !.gives = 1,
                        !.path = "broadcast"]
         ELSE rdm' = [on_line EXCEPT !.pc = "receive", !.data = sent,
                                    !.mux = taken,
                                    !.task_waiting = TRUE, !.recv_ms = 23,
                                    !.tr = tr, !.path = "sent"]
  /\ UNCHANGED <<p_dmx_obj, hwvars, taskvars, ev, clock, halted, ghostline,
                 live, ghostpkt, rxvars, uart_cfg, rsp, brk_ts>>

\* rdm_send_request from dmx_receive to its return; r is what the line
\* carried within the timeout, null_faults whether reading parameter data
\* through a null pointer faults
rdm_receive_response(r, null_faults) ==
  /\ ~halted
  /\ rdm.pc = "receive"
  /\ LET packet == RdmResponsePacket(r, rdm.tn)
         got == dmx_receive(rdm.data, packet)
         header == rdm_read_header(got)
         restored == dmx_write(got, rdm.old_data, rdm.packet_size)
         acked == AckPacket(rdm.ack,
                            IF Len(packet) = 0 THEN "DMX_ERR_TIMEOUT"
                            ELSE "DMX_OK", Len(packet))
         seen == [rdm EXCEPT !.resp = r, !.pc = "idle", !.data = restored,
                             !.tr = RdmNoTransaction, !.ack = acked,
                             !.mux = xSemaphoreGiveRecursive(rdm.mux),
                             !.gives = 1, !.task_waiting = FALSE,
                             !.sending = FALSE]
         copies == header.response_type = RDM_RESPONSE_TYPE_ACK
                   /\ header.pid # RDM_PID_DISC_UNIQUE_BRANCH
                   /\ PdCopyCond(rdm.pd)
     IN  IF Len(packet) = 0
         THEN /\ rdm' = [seen EXCEPT !.ack = AckNoResponse(acked),
                                     !.path = "none"]
              /\ UNCHANGED halted
         ELSE IF ~header.ok
         THEN /\ rdm' = [seen EXCEPT !.ack = AckBadHeader(acked),
                                     !.path = "invalid"]
              /\ UNCHANGED halted
         ELSE IF copies /\ rdm.pd.null /\ null_faults
                 /\ Min(rdm.size, header.pdl) > 0
         THEN /\ rdm' = [rdm EXCEPT !.resp = r, !.pc = "fault", !.data = got,
                                    !.ack = acked, !.task_waiting = FALSE,
                                    !.sending = FALSE, !.path = "fault"]
              /\ halted' = TRUE
         ELSE /\ rdm' = [seen EXCEPT
                          !.pd = IF copies /\ ~rdm.pd.null
                                 THEN [null |-> FALSE,
                                       buf |-> rdm_read_pd(got, rdm.format,
                                                  rdm.pd.buf, rdm.size)]
                                 ELSE rdm.pd,
                          !.ack = AckResponse(acked, header, got),
                          !.ret = rdm_return_value(header),
                          !.path = "done"]
              /\ UNCHANGED halted
  /\ UNCHANGED <<p_dmx_obj, hwvars, taskvars, ev, clock, ghostline,
                 live, ghostpkt, rxvars, uart_cfg, rsp, brk_ts>>

RdmAppWrite == \E v \in {0, 85} : rdm_app_write(v)
RdmOutcomes ==
  {<<FALSE, TRUE, TRUE>>, <<TRUE, FALSE, TRUE>>, <<TRUE, TRUE, FALSE>>,
   <<TRUE, TRUE, TRUE>>}
\* requests are made on a buffer that holds the application's DMX frame
RdmFrameWritten == rdm.path \in {"init", "write"}
RdmRequest ==
  \E tr \in RdmTransactions, size \in 0..MaxPdl, null \in BOOLEAN,
     ack \in {RdmNullAck, RdmFreshAck}, o \in RdmOutcomes :
    /\ RdmFrameWritten
    /\ rdm.tn < MaxTn
    /\ null => size = MaxPdl
    /\ rdm_send_request(tr, IF null THEN RdmNullPd ELSE RdmPdBuf(size), size,
                        ack, o[1], o[2], o[3])

\* one kind of request, made any number of times
RdmTnTransactions ==
  {tr \in RdmTransactions : tr.pdl = 0 /\ tr.format = "b"}
RdmRequestTn ==
  \E tr \in RdmTnTransactions, o \in RdmOutcomes :
    /\ RdmFrameWritten
    /\ rdm_send_request(tr, RdmNullPd, 0, RdmFreshAck, o[1], o[2], o[3])
RdmResponseTn ==
  \E r \in {x \in RdmResponses : x.pdl = 0 /\ x.response_type = RDM_RESPONSE_TYPE_ACK} :
    rdm_receive_response(r, FALSE)
RdmResponse ==
  \E r \in RdmResponses, null_faults \in BOOLEAN :
    rdm_receive_response(r, null_faults)

\* ----------------------------------------------------------- RDM responder
rsp_only ==
  UNCHANGED <<p_dmx_obj, hwvars, taskvars, ev, clock, halted, ghostline, live,
              ghostpkt, rxvars, uart_cfg, rdm, brk_ts>>

\* what every call and request records about itself
RspCall(op, pid, arg) ==
  [rsp EXCEPT !.op = op, !.pid = pid, !.arg = arg, !.ok = FALSE,
              !.reply = "none", !.out = -1, !.sa0 = rsp.sa,
              !.cur0 = rsp.current, !.n = 1 - rsp.n]

\* parameter storage: a parameter can be read and written once it was added
rdm_parameter_copy(reg, copy_ok) == reg /\ copy_ok
rdm_parameter_set(reg, set_ok) == reg /\ set_ok
rdm_queue_push(queue, pid) == Append(queue, pid)

\* the callback of a PID is set in the definition of the PID, which
\* rdm_parameter_define has stored by then
rdm_parameter_callback_set(cb_ok) == cb_ok

\* the queue after a set call that did or did not store the value
QueueAfterSetAlways(queue, pid, stored) == rdm_queue_push(queue, pid)
QueueAfterSet(queue, pid, stored) ==
  IF stored THEN rdm_queue_push(queue, pid) ELSE queue

\* bool rdm_register_dmx_start_address(dmx_num, cb, context)
rdm_register_dmx_start_address(add_ok, cb_ok) ==
  /\ ~halted
  /\ rsp' = [RspCall("register_sa", RDM_PID_DMX_START_ADDRESS, 0) EXCEPT
               !.sa_reg = rsp.sa_reg \/ add_ok,
               !.sa = IF ~rsp.sa_reg /\ add_ok THEN 1 ELSE rsp.sa,
               !.sa_via = IF ~rsp.sa_reg /\ add_ok THEN "init" ELSE rsp.sa_via,
               !.ok = rdm_parameter_callback_set(cb_ok)]
  /\ rsp_only

\* bool rdm_register_dmx_personality(dmx_num, cb, context)
rdm_register_dmx_personality(add_ok, cb_ok) ==
  /\ ~halted
  /\ rsp' = [RspCall("register_p", RDM_PID_DMX_PERSONALITY, 0) EXCEPT
               !.p_reg = rsp.p_reg \/ add_ok,
               !.current = IF ~rsp.p_reg /\ add_ok THEN 1 ELSE rsp.current,
               !.count = IF ~rsp.p_reg /\ add_ok THEN PersonalityCount
                         ELSE rsp.count,
               !.ok = IF ~(rsp.p_reg \/ add_ok) THEN FALSE
                      ELSE rdm_parameter_callback_set(cb_ok)]
  /\ rsp_only

\* size_t rdm_get_dmx_start_address(dmx_num, dmx_start_address)
rdm_get_dmx_start_address(copy_ok) ==
  /\ ~halted
  /\ LET found == rdm_parameter_copy(rsp.sa_reg, copy_ok)
     IN  rsp' = [RspCall("get_sa", RDM_PID_DMX_START_ADDRESS, 0) EXCEPT
                   !.ok = found, !.out = IF found THEN rsp.sa ELSE -1]
  /\ rsp_only

\* the range rdm_set_dmx_start_address accepts
StartAddressOkZero(a) == a < DMX_PACKET_SIZE_MAX
StartAddressOk(a) == a > 0 /\ a < DMX_PACKET_SIZE_MAX

\* bool rdm_set_dmx_start_address(dmx_num, dmx_start_address)
rdm_set_dmx_start_address(a, set_ok) ==
  /\ ~halted
  /\ Len(rsp.queue) < MaxQueue
  /\ LET call == RspCall("set_sa", RDM_PID_DMX_START_ADDRESS, a)
         stored == rdm_parameter_set(rsp.sa_reg, set_ok)
     IN  IF ~StartAddressOk(a)
         THEN rsp' = call
         ELSE rsp' = [call EXCEPT
                        !.sa = IF stored THEN a ELSE rsp.sa,
                        !.sa_via = IF stored THEN "api" ELSE rsp.sa_via,
                        !.queue = QueueAfterSet(rsp.queue,
                                    RDM_PID_DMX_START_ADDRESS, stored),
                        !.ok = stored]
  /\ rsp_only

\* size_t rdm_get_dmx_personality(dmx_num, personality)
rdm_get_dmx_personality(copy_ok) ==
  /\ ~halted
  /\ LET found == rdm_parameter_copy(rsp.p_reg, copy_ok)
     IN  rsp' = [RspCall("get_p", RDM_PID_DMX_PERSONALITY, 0) EXCEPT
                   !.ok = found, !.out = IF found THEN rsp.current ELSE -1]
  /\ rsp_only

\* rdm_dmx_personality_t as rdm_parameter_copy reads it out of the storage
PersonalityCopy ==
  [current_personality |-> rsp.current, personality_count |-> rsp.count]

\* the copy with the new number in it, which rdm_parameter_set stores
PersonalityFresh(personality, num) ==
  [current_personality |-> num, personality_count |-> 0]
PersonalityWritten(personality, num) ==
  [personality EXCEPT !.current_personality = num]

\* bool rdm_set_dmx_personality(dmx_num, personality_num)
rdm_set_dmx_personality(personality_num, copy_ok, set_ok) ==
  /\ ~halted
  /\ Len(rsp.queue) < MaxQueue
  /\ LET call == RspCall("set_p", RDM_PID_DMX_PERSONALITY, personality_num)
         stored == rdm_parameter_copy(rsp.p_reg, copy_ok)
                   /\ rdm_parameter_set(rsp.p_reg, set_ok)
         personality == PersonalityWritten(PersonalityCopy, personality_num)
     IN  IF ~(personality_num > 0 /\ personality_num <= PersonalityCount)
         THEN rsp' = call
         ELSE rsp' = [call EXCEPT
                        !.current = IF stored
                                    THEN personality.current_personality
                                    ELSE rsp.current,
                        !.count = IF stored
                                  THEN personality.personality_count
                                  ELSE rsp.count,
                        !.queue = QueueAfterSet(rsp.queue,
                                    RDM_PID_DMX_PERSONALITY, stored),
                        !.ok = stored]
  /\ rsp_only

\* static size_t rdm_rhd_set_dmx_personality(dmx_num, definition, header):
\* the response it writes, and the personality stored afterwards
rdm_rhd_set_dmx_personality(sub_device, num, read_ok, copy_ok, set_ok) ==
  LET kept == PersonalityCopy
      nack(reason) == [reply |-> reason, current |-> kept.current_personality,
                       count |-> kept.personality_count]
      personality == PersonalityWritten(PersonalityCopy, num)
  IN  IF sub_device # RDM_SUB_DEVICE_ROOT
      THEN nack("NACK_SUB_DEVICE_OUT_OF_RANGE")
      ELSE IF ~read_ok
      THEN nack("NACK_HARDWARE_FAULT")
      ELSE IF num = 0 \/ num > PersonalityCount
      THEN nack("NACK_DATA_OUT_OF_RANGE")
      ELSE IF ~rdm_parameter_copy(rsp.p_reg, copy_ok)
      THEN nack("NACK_HARDWARE_FAULT")
      ELSE IF ~rdm_parameter_set(rsp.p_reg, set_ok)
      THEN nack("NACK_HARDWARE_FAULT")
      ELSE [reply |-> "ACK", current |-> personality.current_personality,
            count |-> personality.personality_count]

\* the handler of SET DMX_START_ADDRESS: the value is checked against
\* min_value and max_value of the definition, then stored
rdm_simple_response_handler(min_value, max_value, value, set_ok) ==
  IF value < min_value \/ value > max_value
  THEN [reply |-> "NACK_DATA_OUT_OF_RANGE", sa |-> rsp.sa]
  ELSE IF ~rdm_parameter_set(rsp.sa_reg, set_ok)
  THEN [reply |-> "NACK_HARDWARE_FAULT", sa |-> rsp.sa]
  ELSE [reply |-> "ACK", sa |-> value]

\* a request addressed to this responder is dispatched to the handler of
\* its PID; an acknowledged SET is put in the status queue; a broadcast
\* request is handled without a response on the line
RdmHandled(bcast, cc, pid, sub, value, read_ok, copy_ok, set_ok) ==
  LET call == RspCall(cc, pid, value)
      known == IF pid = RDM_PID_DMX_START_ADDRESS THEN rsp.sa_reg
               ELSE rsp.p_reg
      sa_set == rdm_simple_response_handler(1, 512, value, set_ok)
      p_set == rdm_rhd_set_dmx_personality(sub, value, read_ok,
                                           copy_ok, set_ok)
      reply == IF ~known THEN "NACK_UNKNOWN_PID"
               ELSE IF cc = "GET" THEN "ACK"
               ELSE IF pid = RDM_PID_DMX_START_ADDRESS THEN sa_set.reply
               ELSE p_set.reply
      acked == reply = "ACK"
  IN  [call EXCEPT
        !.sa = IF known /\ cc = "SET"
                  /\ pid = RDM_PID_DMX_START_ADDRESS
               THEN sa_set.sa ELSE rsp.sa,
        !.sa_via = IF cc = "SET" /\ acked
                      /\ pid = RDM_PID_DMX_START_ADDRESS
                   THEN (IF bcast THEN "broadcast" ELSE "unicast")
                   ELSE rsp.sa_via,
        !.current = IF known /\ cc = "SET"
                       /\ pid = RDM_PID_DMX_PERSONALITY
                    THEN p_set.current ELSE rsp.current,
        !.count = IF known /\ cc = "SET"
                     /\ pid = RDM_PID_DMX_PERSONALITY
                  THEN p_set.count ELSE rsp.count,
        !.queue = IF cc = "SET" /\ acked
                  THEN rdm_queue_push(rsp.queue, pid)
                  ELSE rsp.queue,
        !.ok = acked,
        !.reply = IF bcast THEN "none" ELSE reply,
        !.out = IF cc = "GET" /\ acked
               THEN (IF pid = RDM_PID_DMX_START_ADDRESS
                     THEN rsp.sa ELSE rsp.current)
               ELSE -1]

rdm_handle_request(bcast, cc, pid, sub, value, read_ok, copy_ok, set_ok) ==
  /\ ~halted
  /\ Len(rsp.queue) < MaxQueue
  /\ bcast => cc = "SET"
  /\ rsp' = RdmHandled(bcast, cc, pid, sub, value, read_ok, copy_ok, set_ok)
  /\ rsp_only

\* GET QUEUED_MESSAGE takes the oldest PID out of the status queue
rdm_queue_pop ==
  /\ ~halted
  /\ rsp.queue # <<>>
  /\ rsp' = [RspCall("pop", rsp.queue[1], 0) EXCEPT
               !.queue = Tail(rsp.queue), !.ok = TRUE]
  /\ rsp_only

StartAddresses ==
  {0, 1, 100, DMX_PACKET_SIZE_MAX - 1, DMX_PACKET_SIZE_MAX, UINT16_MAX}
PersonalityNums == 0..(PersonalityCount + 1)

RspRegister ==
  \E add_ok \in BOOLEAN, cb_ok \in BOOLEAN :
    \/ rdm_register_dmx_start_address(add_ok, cb_ok)
    \/ rdm_register_dmx_personality(add_ok, cb_ok)
RspGet ==
  \E copy_ok \in BOOLEAN :
    \/ rdm_get_dmx_start_address(copy_ok)
    \/ rdm_get_dmx_personality(copy_ok)
\* the parameter data is read, the parameter is copied and it is stored:
\* all succeed, or one of them fails
RspFaults ==
  {<<TRUE, TRUE, TRUE>>, <<FALSE, TRUE, TRUE>>, <<TRUE, FALSE, TRUE>>,
   <<TRUE, TRUE, FALSE>>}

RspSet ==
  \/ \E a \in StartAddresses, set_ok \in BOOLEAN :
       rdm_set_dmx_start_address(a, set_ok)
  \/ \E num \in PersonalityNums, f \in RspFaults :
       f[1] /\ rdm_set_dmx_personality(num, f[2], f[3])
RspRequest ==
  \E bcast \in BOOLEAN, cc \in {"GET", "SET"} :
    \/ \E a \in StartAddresses, set_ok \in BOOLEAN :
         rdm_handle_request(bcast, cc, RDM_PID_DMX_START_ADDRESS,
                            RDM_SUB_DEVICE_ROOT, a, TRUE, TRUE, set_ok)
    \/ \E num \in PersonalityNums, f \in RspFaults :
         rdm_handle_request(bcast, cc, RDM_PID_DMX_PERSONALITY,
                            RDM_SUB_DEVICE_ROOT, num, f[1], f[2], f[3])
    \/ \E num \in PersonalityNums :
         rdm_handle_request(bcast, cc, RDM_PID_DMX_PERSONALITY, 1, num,
                            TRUE, TRUE, TRUE)
RspPop == rdm_queue_pop

\* ------------------------------------------------------------ the system
Init ==
  /\ p_dmx_obj = NULL
  /\ hw_enabled = FALSE
  /\ int_ena = {}
  /\ int_raw = {}
  /\ txfifo = <<>>
  /\ tx_hw = "idle"
  /\ txd_inv = FALSE
  /\ rts = 0
  /\ pc = [t \in Tasks |-> "idle"]
  /\ loc_now = [t \in Tasks |-> 0]
  /\ ev = Ret(1, "boot", ESP_OK)
  /\ now = 0
  /\ nticks = 0
  /\ halted = FALSE
  /\ wire = "mark"
  /\ slot_recent = FALSE
  /\ live = FALSE
  /\ inflight = FALSE
  /\ npushed = 0
  /\ seq_ok = TRUE
  /\ rxfifo = <<>>
  /\ rx_pkt = <<>>
  /\ rx_sync = "lost"
  /\ uart_cfg = HwResetCfg
  /\ rdm = RdmIdle
  /\ rsp = RspInit
  /\ brk_ts = BrkOff

Install(T) == ~halted /\ \E t \in T, n \in InstallBufferSizes :
                             InstallCall(t, n)
Delete(T) == ~halted /\ \E t \in T : dmx_driver_delete(t)
SetMode(T) == ~halted /\ \E t \in T, m \in {DMX_MODE_RX, DMX_MODE_TX} :
                            dmx_set_mode(t, m)
Write(T, S) == ~halted /\ \E t \in T, p \in Patterns, n \in S :
                             dmx_write_packet(t, p, n)
WaitTxDone(T) == ~halted /\ \E t \in T, k \in WaitTicks : dmx_wait_tx_done(t, k)
WaitTake(T) == ~halted /\ \E t \in T : wait_take(t)
WaitTimeout(T) == ~halted /\ \E t \in T : wait_timeout(t)
WaitGive(T) == ~halted /\ \E t \in T : wait_give(t)
TxPacket(T) == ~halted /\ \E t \in T : dmx_tx_packet(t)
TxBrk(T) == ~halted /\ \E t \in T : tx_brk(t)
TxMab(T) == ~halted /\ \E t \in T : tx_mab(t)
TxFifo(T) == ~halted /\ \E t \in T : tx_fifo(t)
TxEna(T) == ~halted /\ \E t \in T : tx_ena(t)
Isr == ~halted /\ dmx_default_intr_handler
HwShift == ~halted /\ hw_shift
HwBrkDone == ~halted /\ hw_brk_done
HwIdleDone == ~halted /\ hw_idle_done
Time == ~halted /\ Tick
RxBreak == ~halted /\ rx_break
RxByte == ~halted /\ \E b \in Patterns : rx_byte(b)
RxTout == ~halted /\ rx_tout
RxParity == ~halted /\ rx_parity
Storm == ~halted /\ intr_storm
ParamConfig(T) ==
  ~halted /\ \E t \in T, b \in Baudrates, n \in BreakNums, i \in IdleNums :
    dmx_param_config(t, [baudrate |-> b, break_num |-> n, idle_num |-> i])
SetBaudrate(T) == ~halted /\ \E t \in T, b \in Baudrates : dmx_set_baudrate(t, b)
SetBreakNum(T) == ~halted /\ \E t \in T, n \in BreakNums : dmx_set_break_num(t, n)
SetIdleNum(T) == ~halted /\ \E t \in T, i \in IdleNums : dmx_set_idle_num(t, i)

\* The life of a port from power-up: one task installs, uses and deletes the
\* driver.
Next ==
  \/ Install({1})
  \/ Delete({1})
  \/ SetMode({1})
  \/ Write({1}, WriteSizes)
  \/ TxPacket({1})
  \/ TxBrk({1})
  \/ TxMab({1})
  \/ TxFifo({1})
  \/ TxEna({1})
  \/ Isr
  \/ HwShift
  \/ HwBrkDone
  \/ HwIdleDone

Spec == Init /\ [][Next]_vars

\* An installed port (dmx_driver_install returned ESP_OK with buffer_size
\* MaxBuf), as lines 61-144 leave it.
InitTxState ==
  /\ \E p \in Patterns : p_dmx_obj = <<InstalledObj(MaxBuf, p)>>
  /\ hw_enabled = TRUE
  /\ int_ena = DMX_INTR_RX_ALL
  /\ int_raw = {}
  /\ txfifo = <<>>
  /\ tx_hw = "idle"
  /\ txd_inv = FALSE
  /\ rts = 1
  /\ pc = [t \in Tasks |-> "idle"]
  /\ loc_now = [t \in Tasks |-> 0]
  /\ ev = Ret(1, "install", ESP_OK)
  /\ now = 0
  /\ nticks = 0
  /\ halted = FALSE
  /\ wire = "mark"
  /\ slot_recent = FALSE
  /\ live = TRUE
  /\ inflight = FALSE
  /\ npushed = 0
  /\ seq_ok = TRUE
  /\ rxfifo = <<>>
  /\ rx_pkt = <<>>
  /\ rx_sync = "lost"
  /\ uart_cfg = HwResetCfg
  /\ rdm = RdmIdle
  /\ rsp = RspInit

InitTx == InitTxState /\ brk_ts = BrkOff

\* One task transmits on an installed port while time passes.
NextTx ==
  \/ SetMode({1})
  \/ Write({1}, {MaxBuf})
  \/ WaitTxDone({1})
  \/ WaitTake({1})
  \/ WaitTimeout({1})
  \/ WaitGive({1})
  \/ TxPacket({1})
  \/ TxBrk({1})
  \/ TxMab({1})
  \/ TxFifo({1})
  \/ TxEna({1})
  \/ Isr
  \/ HwShift
  \/ HwBrkDone
  \/ HwIdleDone
  \/ Time

SpecTx == InitTx /\ [][NextTx]_vars

\* One task sends packet after packet while the times of the breaks on the
\* line are followed.
InitBrk == InitTxState /\ brk_ts = BrkOn

HalfTime == ~halted /\ HalfTick

NextBrk ==
  \/ SetMode({1})
  \/ TxPacket({1})
  \/ TxBrk({1})
  \/ TxMab({1})
  \/ TxFifo({1})
  \/ TxEna({1})
  \/ Isr
  \/ HwShift
  \/ HwBrkDone
  \/ HwIdleDone
  \/ HalfTime

SpecBrk == InitBrk /\ [][NextBrk]_vars

\* One task sends and waits for the packet to be sent, with and without a
\* timeout, while the interrupt handler signals completion.
NextRace ==
  \/ SetMode({1})
  \/ WaitTxDone({1})
  \/ WaitTake({1})
  \/ WaitTimeout({1})
  \/ WaitGive({1})
  \/ TxPacket({1})
  \/ TxBrk({1})
  \/ TxMab({1})
  \/ TxFifo({1})
  \/ TxEna({1})
  \/ Isr
  \/ HwShift
  \/ HwBrkDone
  \/ HwIdleDone

SpecRace == InitTx /\ [][NextRace]_vars

\* Two tasks use an installed port at once.
NextMT ==
  \/ SetMode(Tasks)
  \/ Write(Tasks, {MaxBuf})
  \/ TxPacket(Tasks)
  \/ TxBrk(Tasks)
  \/ TxMab(Tasks)
  \/ TxFifo(Tasks)
  \/ TxEna(Tasks)
  \/ Isr
  \/ HwShift
  \/ HwBrkDone
  \/ HwIdleDone

SpecMT == InitTx /\ [][NextMT]_vars

\* One task transmits on an installed port; the transmitter keeps shifting,
\* pending interrupts are delivered and a running call goes on.
NextLive ==
  \/ SetMode({1})
  \/ Write({1}, {MaxBuf})
  \/ WaitTxDone({1})
  \/ WaitTake({1})
  \/ WaitTimeout({1})
  \/ WaitGive({1})
  \/ TxPacket({1})
  \/ TxBrk({1})
  \/ TxMab({1})
  \/ TxFifo({1})
  \/ TxEna({1})
  \/ Isr
  \/ HwShift
  \/ HwBrkDone
  \/ HwIdleDone

Fairness ==
  /\ WF_vars(Isr)
  /\ WF_vars(HwShift)
  /\ WF_vars(HwBrkDone)
  /\ WF_vars(HwIdleDone)
  /\ WF_vars(TxBrk({1}))
  /\ WF_vars(TxMab({1}))
  /\ WF_vars(TxFifo({1}))
  /\ WF_vars(TxEna({1}))
  /\ WF_vars(WaitTake({1}))
  /\ WF_vars(WaitGive({1}))

LiveSpec == InitTx /\ [][NextLive]_vars /\ Fairness

\* An installed port receives.
NextRx ==
  \/ RxBreak
  \/ RxByte
  \/ RxTout
  \/ RxParity
  \/ Storm
  \/ Isr

SpecRx == InitTx /\ [][NextRx]_vars

\* the receiver on a line that carries one byte value: breaks, bytes, idle
\* time and parity errors, without the interrupt storm
RxByteOne == ~halted /\ rx_byte(0)

NextIdle ==
  \/ RxBreak
  \/ RxByteOne
  \/ RxTout
  \/ RxParity
  \/ Isr

SpecIdle == InitTx /\ [][NextIdle]_vars

\* One task transmits on an installed port; it and a second task wait for the
\* packet to be sent.
NextWait ==
  \/ SetMode({1})
  \/ WaitTxDone(Tasks)
  \/ WaitTake(Tasks)
  \/ WaitTimeout(Tasks)
  \/ WaitGive(Tasks)
  \/ TxPacket({1})
  \/ TxBrk({1})
  \/ TxMab({1})
  \/ TxFifo({1})
  \/ TxEna({1})
  \/ Isr
  \/ HwShift
  \/ HwBrkDone
  \/ HwIdleDone

SpecWait == InitTx /\ [][NextWait]_vars

\* the RDM controller alone: DMX frames written and requests sent
NextRdm ==
  \/ RdmAppWrite
  \/ RdmRequest
  \/ RdmResponse

SpecRdm == Init /\ [][NextRdm]_vars

\* the transaction counter through its whole range
NextTn ==
  \/ RdmAppWrite
  \/ RdmRequestTn
  \/ RdmResponseTn

SpecTn == Init /\ [][NextTn]_vars

\* the RDM responder: registration, the get and set calls, requests
NextRsp ==
  \/ RspRegister
  \/ RspGet
  \/ RspSet
  \/ RspRequest
  \/ RspPop

SpecRsp == Init /\ [][NextRsp]_vars

\* the RDM responder with the DMX_PERSONALITY parameter alone
RspRegisterPersonality ==
  \E add_ok \in BOOLEAN, cb_ok \in BOOLEAN :
    rdm_register_dmx_personality(add_ok, cb_ok)
RspRequestPersonality ==
  \E bcast \in BOOLEAN, cc \in {"GET", "SET"}, sub \in {0, 1},
     num \in PersonalityNums, f \in RspFaults :
    rdm_handle_request(bcast, cc, RDM_PID_DMX_PERSONALITY, sub, num,
                       f[1], f[2], f[3])

NextPersonality ==
  \/ RspRegisterPersonality
  \/ RspRequestPersonality
  \/ RspPop

SpecPersonality == Init /\ [][NextPersonality]_vars

\* The UART of a port is configured, from power-up.
NextCfg ==
  \/ ParamConfig({1})
  \/ SetBaudrate({1})
  \/ SetBreakNum({1})
  \/ SetIdleNum({1})

SpecCfg == Init /\ [][NextCfg]_vars

\* ------------------------------------------------------------- lifecycle
\* the fields of the driver object and the interrupt mask are as before
ObjectUntouched == p_dmx_obj' = p_dmx_obj /\ int_ena' = int_ena

\* this step is a call of dmx_driver_install with buffer_size n
InstallCalled(n) == ev'[1] = "install" /\ InstallCall(1, n)

\* C1, as stated: install on a port that is already installed returns
\* ESP_ERR_INVALID_STATE and leaves the driver object (mode, buffers, buffer
\* index, semaphore, interrupt mask) as it was.
C1_AsStated ==
  [][\A n \in InstallBufferSizes :
       (dmx_is_driver_installed /\ InstallCalled(n))
         => (ev' = <<"install", ESP_ERR_INVALID_STATE>> /\ ObjectUntouched)]_vars

\* C1, amended: install on a port that is already installed leaves the driver
\* object as it was and returns ESP_ERR_INVALID_STATE when buffer_size is in
\* 1..DMX_MAX_PACKET_SIZE; the arguments are checked first, so a buffer_size
\* outside that range returns ESP_ERR_INVALID_ARG.
C1_InstallTwice ==
  [][\A n \in InstallBufferSizes :
       (dmx_is_driver_installed /\ InstallCalled(n))
         => /\ ObjectUntouched
            /\ ev' = <<"install",
                       IF n > 0 /\ n <= DMX_MAX_PACKET_SIZE
                         THEN ESP_ERR_INVALID_STATE
                         ELSE ESP_ERR_INVALID_ARG>>]_vars

\* an installed driver in transmit mode with a packet in flight was asked to
\* install again and refused
C1_Witness ==
  /\ live
  /\ obj.mode = DMX_MODE_TX
  /\ obj.tx_done_sem = 0
  /\ DMX_INTR_TX_ALL \subseteq int_ena
  /\ ev = <<"install", ESP_ERR_INVALID_STATE>>

\* C2: an install that fails after the driver object was allocated (buffer
\* allocation or interrupt allocation fails) leaves the per-port slot empty
\* and is_installed false, so that a later install is not rejected.
AllocFailures == {"buf_nomem", "intr_fail"}
C2_Unwound ==
  [][\A n \in InstallBufferSizes, oc \in AllocFailures, p \in Patterns :
       (p_dmx_obj = NULL /\ n > 0 /\ n <= DMX_MAX_PACKET_SIZE
          /\ ev'[1] = "install" /\ dmx_driver_install(1, n, oc, p))
         => (p_dmx_obj' = NULL /\ ~dmx_is_driver_installed')]_vars

\* C3: is_installed is true exactly when the last successful install was not
\* followed by a successful delete; delete on a port that is not installed
\* returns ESP_OK and changes nothing; after a successful delete the slot is
\* NULL.
C3_InstalledIffLive ==
  [][/\ dmx_is_driver_installed' = live'
     /\ (p_dmx_obj = NULL /\ ev'[1] = "delete" /\ dmx_driver_delete(1))
          => (ev' = <<"delete", ESP_OK>> /\ ObjectUntouched)
     /\ (ev' = <<"delete", ESP_OK>> /\ dmx_driver_delete(1))
          => p_dmx_obj' = NULL]_vars

\* ------------------------------------------------------------------ send
\* task t is inside dmx_tx_packet, past the semaphore
InSend(t) == pc[t] \in {"tx_brk", "tx_mab", "tx_fifo", "tx_ena"}

\* a send was accepted and its packet has not left the FIFO
InFlight == inflight \/ \E t \in Tasks : InSend(t)

\* the semaphore, the FIFO and the interrupt mask are as before
TxUntouched ==
  /\ obj'.tx_done_sem = obj.tx_done_sem
  /\ obj'.slot_idx = obj.slot_idx
  /\ txfifo' = txfifo
  /\ int_ena' = int_ena

\* C4: dmx_tx_packet called in receive mode returns an error
\* (ESP_ERR_INVALID_STATE) without taking the semaphore, without writing to
\* the TX FIFO and without enabling a TX interrupt.
C4_RejectInRx ==
  [][(p_dmx_obj # NULL /\ obj.mode = DMX_MODE_RX /\ pc[1] = "idle"
        /\ dmx_tx_packet(1))
       => /\ ev' = <<"tx_packet", ESP_ERR_INVALID_STATE>>
          /\ pc'[1] = "idle"
          /\ TxUntouched]_vars

\* a send was refused on an installed port in receive mode while the
\* semaphore was free
C4_Witness ==
  /\ live
  /\ obj.mode = DMX_MODE_RX
  /\ obj.tx_done_sem = 1
  /\ ev = <<"tx_packet", ESP_ERR_INVALID_STATE>>

\* C5: between a successful send and the completion of its packet every other
\* send returns ESP_FAIL and changes neither the slot index, the TX FIFO nor
\* the interrupt mask.
C5_OneInFlight ==
  [][\A t \in Tasks :
       (InFlight /\ obj.mode = DMX_MODE_TX /\ pc[t] = "idle"
          /\ dmx_tx_packet(t))
         => /\ ev' = <<"tx_packet", ESP_FAIL>>
            /\ pc'[t] = "idle"
            /\ TxUntouched]_vars

\* C6: the bytes pushed into the TX FIFO for a send are the buffer's bytes at
\* the indices 0, 1, ... up to the packet size, each once and in order.
C6_PushedInOrder == seq_ok /\ npushed <= obj.buf_size

\* C7: a start code reaches the wire only after a break and a mark after
\* break that followed the last byte before it.
C7_Framed == wire # "sc_unframed"

\* C8: while send drives the break or the mark after break the TX FIFO holds
\* no byte and the interrupt handler does not write to it.
InBreakOrMab == \E t \in Tasks : pc[t] \in {"tx_brk", "tx_mab"}
C8_FifoEmptyInBreak ==
  [][/\ InBreakOrMab => txfifo = <<>>
     /\ (InBreakOrMab /\ dmx_default_intr_handler) => txfifo' = txfifo]_vars

\* C9: the break that frames a packet begins at least 1204us after the last
\* slot of the packet before it.
C9_Spacing == wire # "sc_early"

\* C10: after a successful send on a port that stays in transmit mode the
\* slot index reaches the packet size and the semaphore is given, and a
\* dmx_wait_tx_done(portMAX_DELAY) returns ESP_OK.
SendReturnedOk == pc[1] = "idle" /\ ev = <<"tx_packet", ESP_OK>>
PacketDone == obj.slot_idx = obj.buf_size /\ obj.tx_done_sem = 1
LeftTxMode == obj.mode # DMX_MODE_TX
C10_Completes ==
  /\ SendReturnedOk ~> (PacketDone \/ LeftTxMode)
  /\ (pc[1] = "wait_forever") ~>
       (ev = <<"wait_tx_done", ESP_OK>> \/ LeftTxMode)

\* --------------------------------------------------------------- receive
\* every byte of the packet on the line has been read by the handler
RxDelivered ==
  /\ rx_sync = "ok"
  /\ rxfifo = <<>>
  /\ Len(rx_pkt) <= obj.buf_size

\* C11: when a packet of n bytes (n at most buffer_size) arrives after a
\* break and has been read by the handler, in however many fragments, the
\* slot index is n and the first n bytes of the buffer are the packet's bytes
\* in the order of the line.
C11_Reassembled ==
  RxDelivered =>
    /\ obj.slot_idx = Len(rx_pkt)
    /\ SubSeq(obj.buffer, 1, Len(rx_pkt)) = rx_pkt

\* C12: the slot index never leaves the buffer: once it is at most buf_size
\* it stays at most buf_size, also across an overflow or parity interrupt and
\* an interrupt storm.
HeadInBuffer == p_dmx_obj # NULL => obj.slot_idx <= obj.buf_size
C12_HeadBounded == [][HeadInBuffer => HeadInBuffer']_vars

\* a pass of the handler that sees a frame indicator
IsrSeesBreak ==
  /\ uart_intr_status \cap DMX_INTR_TX_ALL = {}
  /\ uart_intr_status \cap RxBreakIntr # {}
  /\ dmx_default_intr_handler

\* C13: a pass of the handler that sees a break or frame error with slots
\* accumulated posts the packet to the waiting task and then resets the slot
\* index to 0; with no slot accumulated it only resets the slot index.
C13_SignalsPacket ==
  [][IsrSeesBreak =>
       /\ obj'.slot_idx = 0
       /\ IF RxHeadAfterRead(obj) > 0 /\ RxHeadAfterRead(obj) <= obj.buf_size
            THEN Len(obj'.queue) = Len(obj.queue) + 1
            ELSE obj'.queue = obj.queue]_vars

\* ----------------------------------------------------------------- write
\* a write of size n that the driver must refuse
WriteRefused(n) ==
  \/ p_dmx_obj = NULL
  \/ n > obj.buf_size
  \/ n # 0 /\ obj.mode = DMX_MODE_RX

\* C14: dmx_write_packet with a non-zero size in receive mode, with a size
\* greater than buf_size, or on a port that is not installed returns an error
\* and leaves the driver object, its buffer included, as it was.
C14_WriteRefused ==
  [][\A p \in Patterns, n \in WriteSizes :
       (ev'[1] = "write_packet" /\ WriteRefused(n)
          /\ dmx_write_packet(1, p, n))
         => /\ ev'[2] \in {ESP_ERR_INVALID_STATE, ESP_ERR_INVALID_ARG}
            /\ p_dmx_obj' = p_dmx_obj]_vars

\* a write of one byte was refused on an installed port in receive mode
C14_Witness ==
  /\ live
  /\ obj.mode = DMX_MODE_RX
  /\ ev = <<"write_packet", ESP_ERR_INVALID_STATE>>

\* --------------------------------------------------------- configuration
\* C15: dmx_set_baudrate with a rate outside 245000..255000, dmx_set_break_num
\* with a break shorter than the transmit minimum and dmx_set_idle_num with
\* a mark after break outside the transmit range return ESP_ERR_INVALID_ARG
\* and leave the baud rate, the break and the mark after break as they were.
C15_BadConfigRefused ==
  [][/\ \A b \in Baudrates :
          (ev'[1] = "set_baudrate" /\ (b < 245000 \/ b > 255000)
             /\ dmx_set_baudrate(1, b))
            => (ev'[2] = ESP_ERR_INVALID_ARG /\ uart_cfg' = uart_cfg)
     /\ \A n \in BreakNums :
          (ev'[1] = "set_break_num"
             /\ get_brk_us(uart_cfg.baudrate, n) < DMX_TX_MIN_SPACE_FOR_BRK_US
             /\ dmx_set_break_num(1, n))
            => (ev'[2] = ESP_ERR_INVALID_ARG /\ uart_cfg' = uart_cfg)
     /\ \A i \in IdleNums :
          (ev'[1] = "set_idle_num"
             /\ (\/ get_mab_us(uart_cfg.baudrate, i) < DMX_TX_MIN_MRK_AFTER_BRK_US
                 \/ get_mab_us(uart_cfg.baudrate, i) > DMX_TX_MAX_MRK_AFTER_BRK_US)
             /\ dmx_set_idle_num(1, i))
            => (ev'[2] = ESP_ERR_INVALID_ARG /\ uart_cfg' = uart_cfg)]_vars

\* a configured UART refused a baud rate
C15_Witness ==
  /\ uart_cfg = [baudrate |-> 250000, break_num |-> 44, idle_num |-> 3]
  /\ ev = <<"set_baudrate", ESP_ERR_INVALID_ARG>>

\* ------------------------------------------------------------------ wait
\* the tasks blocked in dmx_wait_tx_done, waiting for the semaphore
Blocked == {t \in Tasks : pc[t] \in {"wait_forever", "wait_timed"}}

\* C16: at most one task is blocked waiting for the completion of a port: a
\* second task that calls dmx_wait_tx_done while one is blocked does not
\* become blocked as well.
C16_OneWaiter == Cardinality(Blocked) <= 1

\* C17: while a packet is in flight (accepted by dmx_tx_packet and not yet
\* complete) dmx_write_packet does not change the buffer the interrupt
\* handler is sending from, so that no packet on the line mixes the bytes of
\* two writes.
C17_SingleWriter ==
  [][\A p \in Patterns :
       (InFlight /\ obj.mode = DMX_MODE_TX /\ ev'[1] = "write_packet"
          /\ dmx_write_packet(1, p, MaxBuf))
         => obj'.buffer = obj.buffer]_vars

\* -------------------------------------------------------- RDM controller
RdmReturned ==
  /\ rdm.pc = "idle"
  /\ rdm.path \in {"mux", "busy", "send", "broadcast", "none", "invalid", "done"}
AckSeen ==
  rdm.resp.kind = "ok" /\ rdm.resp.response_type = RDM_RESPONSE_TYPE_ACK

\* C18: when rdm_send_request returns after it took the snapshot of the
\* buffer, on any return path, the driver buffer holds the bytes it held
\* when the call started, whatever request was written and whatever
\* response was received.
C18_BufferRestored == (RdmReturned /\ rdm.snap) => rdm.data = rdm.data0

\* C19: rdm_send_request returns the pdl of the response when the response
\* type is ACK, and 0 in every other case.
C19_ReturnsPdl ==
  RdmReturned => rdm.ret = IF AckSeen THEN rdm.resp.pdl ELSE 0

\* C19 as the code has it: an ACK without parameter data returns 1, an ACK
\* with parameter data returns its pdl, every other outcome returns 0.
C19_ReturnsPdlOrOne ==
  RdmReturned =>
    rdm.ret = IF AckSeen
              THEN (IF rdm.resp.pdl = 0 THEN 1 ELSE rdm.resp.pdl)
              ELSE 0
C19_Witness ==
  RdmReturned /\ AckSeen /\ rdm.resp.pdl = 0 /\ rdm.ret = 1

\* C20: after an ACK for a PID other than DISC_UNIQUE_BRANCH, a caller who
\* passed a non-null pd finds in it the parameter data of the response,
\* decoded with the response format, at most size bytes of it.
C20_PdCopied ==
  (RdmReturned /\ AckSeen /\ rdm.resp.pid # RDM_PID_DISC_UNIQUE_BRANCH
     /\ ~rdm.pd.null)
    => rdm.pd.buf =
         [i \in 1..rdm.size |->
            IF i <= Min(rdm.size, rdm.resp.pdl)
            THEN pd_decode(rdm.format, RdmResponsePd(rdm.resp))[i]
            ELSE 0]

\* C21: a request that was sent to a broadcast UID with a PID other than
\* DISC_UNIQUE_BRANCH never calls receive: the call waits for the send to
\* complete, restores the buffer and returns 0 with ack.type = NONE; every
\* other request that was sent calls receive with a timeout of 23 ms.
RdmNoReply == rdm.arg.bcast /\ rdm.arg.pid # RDM_PID_DISC_UNIQUE_BRANCH
C21_BroadcastNoReceive ==
  /\ (rdm.pc = "receive") => (~RdmNoReply /\ rdm.recv_ms = 23)
  /\ (RdmReturned /\ rdm.arg.sent) =>
       IF RdmNoReply
       THEN /\ rdm.recv_ms = 0
            /\ rdm.resp.kind = "unsent"
            /\ rdm.waited
            /\ rdm.data = rdm.data0
            /\ rdm.ret = 0
            /\ ~rdm.ack.null => rdm.ack.type = RDM_RESPONSE_TYPE_NONE
       ELSE rdm.recv_ms = 23 /\ rdm.resp.kind # "unsent"
C21_Witness ==
  /\ RdmReturned /\ rdm.arg.sent /\ RdmNoReply
  /\ ~rdm.ack.null /\ rdm.ack.type = RDM_RESPONSE_TYPE_NONE
  /\ rdm.data0[1] = 85

\* C22: when no response arrives within the 23 ms of receive,
\* rdm_send_request returns 0 with ack.type = NONE and ack.err = TIMEOUT,
\* and the port is idle: the mutex is released, no task is registered as
\* waiting and the driver is not sending, so that a new send is accepted.
C22_TimeoutIdle ==
  (RdmReturned /\ rdm.resp.kind = "none") =>
    /\ rdm.ret = 0
    /\ ~rdm.ack.null => (rdm.ack.type = RDM_RESPONSE_TYPE_NONE
                         /\ rdm.ack.err = "DMX_ERR_TIMEOUT")
    /\ rdm.mux = 0
    /\ ~rdm.task_waiting
    /\ ~rdm.sending
C22_Witness ==
  /\ RdmReturned /\ rdm.resp.kind = "none" /\ ~rdm.arg.bcast
  /\ ~rdm.ack.null /\ rdm.ack.err = "DMX_ERR_TIMEOUT"

\* C23: when a response arrives whose header or checksum fails validation,
\* or whose response type is not one of the RDM response types,
\* rdm_send_request reports ack.type = INVALID and returns 0.
RdmBadResponse ==
  \/ rdm.resp.kind = "bad"
  \/ /\ rdm.resp.kind = "ok"
     /\ rdm.resp.response_type \notin
          {RDM_RESPONSE_TYPE_ACK, RDM_RESPONSE_TYPE_ACK_TIMER,
           RDM_RESPONSE_TYPE_NACK_REASON, RDM_RESPONSE_TYPE_ACK_OVERFLOW}
C23_InvalidReported ==
  (RdmReturned /\ RdmBadResponse) =>
    /\ rdm.ret = 0
    /\ ~rdm.ack.null => rdm.ack.type = RDM_RESPONSE_TYPE_INVALID
C23_Witness ==
  /\ RdmReturned /\ rdm.resp.kind = "bad" /\ ~rdm.ack.null
  /\ rdm.ack.type = RDM_RESPONSE_TYPE_INVALID /\ rdm.ack.size > 0

\* C24: every request sent carries a transaction number one greater,
\* modulo 256, than the request sent before it on the port.
C24_TnSuccessor ==
  (rdm.tn_sent >= 0 /\ rdm.tn_prev >= 0) =>
    rdm.tn_sent = (rdm.tn_prev + 1) % 256
C24_Witness == rdm.tn_prev = 255 /\ rdm.tn_sent = 0

\* ------------------------------------------------------ RDM responder claims
RspSetsStartAddress ==
  \/ rsp.op = "set_sa"
  \/ rsp.op = "SET" /\ rsp.pid = RDM_PID_DMX_START_ADDRESS
RspGetsStartAddress ==
  \/ rsp.op = "get_sa"
  \/ rsp.op = "GET" /\ rsp.pid = RDM_PID_DMX_START_ADDRESS

RspIsSet(r) == r.op \in {"set_sa", "set_p", "SET"}

C27_TrueOnlyIfRegistered ==
  /\ (rsp.op = "register_sa" /\ rsp.ok) => rsp.sa_reg
  /\ (rsp.op = "register_p" /\ rsp.ok) => rsp.p_reg

\* ------------------------------------------------------------ TX ISR claims
\* the handler's TX_DONE branch gives the semaphore in this step
IsrGivesTxDone ==
  /\ p_dmx_obj # NULL /\ p_dmx_obj' # NULL
  /\ "TX_DONE" \in int_raw /\ int_raw' = int_raw \ {"TX_DONE"}
  /\ pc' = pc /\ obj'.mode = obj.mode
  /\ obj.tx_done_sem = 0 /\ obj'.tx_done_sem = 1

\* C28: the interrupt handler gives the completion semaphore only when every
\* byte of the packet has been written to the FIFO (slot_idx = buf_size); a
\* TX_DONE that is pending while slot_idx < buf_size, raised by a FIFO that
\* drained between two refills, does not signal completion.
C28_GiveOnlyWhenWritten ==
  [][IsrGivesTxDone => obj.slot_idx = obj.buf_size]_vars

\* task t's send is accepted in this step
SendAccepted(t) == pc[t] = "idle" /\ pc'[t] \in {"tx_brk", "tx_fifo"}

\* C29: an accepted send drives the inline break and mark after break exactly
\* when at least DMX_TX_MAX_BRK_TO_BRK_US has passed since the break of the
\* packet sent before it, and skips them when that break is more recent.
C29_InlineBreakWhenStale ==
  [][\A t \in Tasks :
       SendAccepted(t)
         => (pc'[t] = "tx_brk"
               <=> now - brk_ts.pkt >= DMX_TX_MAX_BRK_TO_BRK_US)]_vars

\* the pass of the handler after which no interrupt is pending
IsrExit == dmx_default_intr_handler /\ uart_intr_status' = {}

\* C30: the interrupt handler terminates: every pass of its loop clears at
\* least one pending status bit and raises none, for any set of pending bits,
\* also all of them at once; and when the loop exits the slot index is within
\* the buffer, the mode is RX or TX and only interrupts of that mode are
\* enabled.
C30_IsrTerminates ==
  [][/\ dmx_default_intr_handler
          => (/\ uart_intr_status' # uart_intr_status
              /\ uart_intr_status' \subseteq uart_intr_status)
     /\ IsrExit
          => (/\ HeadInBuffer'
              /\ obj'.mode \in {DMX_MODE_RX, DMX_MODE_TX}
              /\ int_ena' \subseteq (IF obj'.mode = DMX_MODE_RX
                                      THEN DMX_INTR_RX_ALL
                                      ELSE DMX_INTR_TX_ALL))]_vars

\* ------------------------------------------------- mode and line direction
\* C31: in every reachable state, under any interleaving of dmx_set_mode,
\* dmx_tx_packet and the interrupt handler, no RX interrupt (RXFIFO_TOUT
\* included) is enabled while the mode is TX and no TX interrupt is enabled
\* while the mode is RX.
C31_MaskMatchesMode ==
  p_dmx_obj # NULL
    => /\ obj.mode = DMX_MODE_TX => int_ena \cap DMX_INTR_RX_ALL = {}
       /\ obj.mode = DMX_MODE_RX => int_ena \cap DMX_INTR_TX_ALL = {}

\* the line direction is transmit: dmx_set_mode(TX) set RTS (line 238)
LineTransmits == rts = 0

\* C32: a byte is pushed to the TX FIFO and the inline break is driven only
\* while the line direction is transmit; a dmx_set_mode(RX) of another task
\* that interleaves with a send does not lead to a break or a FIFO write
\* after the line was turned to receive.
C32_PushOnlyInTransmit ==
  [][(Len(txfifo') > Len(txfifo) \/ (txd_inv' /\ ~txd_inv))
       => LineTransmits]_vars

\* ------------------------------------------------- waiting for completion
\* the handler's pass takes the TX_DONE branch
IsrTxDone ==
  /\ dmx_default_intr_handler
  /\ "TX_DONE" \in uart_intr_status
  /\ uart_intr_status \cap {"TXFIFO_EMPTY", "TX_BRK_IDLE"} = {}

\* task t takes the semaphore in this step
TakesSem(t) ==
  /\ pc[t] \in {"idle", "wait_forever", "wait_timed"}
  /\ pc'[t] \in {"wait_give", "tx_brk", "tx_fifo"}

\* C33: when dmx_wait_tx_done times out as the TX_DONE interrupt signals
\* completion, the completion is neither lost nor duplicated: the semaphore
\* count stays at most 1, the call that timed out returns ESP_ERR_TIMEOUT and
\* leaves the driver as it was, the handler's give leaves the semaphore
\* given, and a given semaphore stays given until a wait or a send takes it.
C33_CompletionKept ==
  [][(p_dmx_obj # NULL /\ p_dmx_obj' # NULL)
       => /\ obj'.tx_done_sem \in {0, 1}
          /\ \A t \in Tasks :
               (pc[t] = "wait_timed" /\ pc'[t] = "idle")
                 => (/\ ev' = Ret(t, "wait_tx_done", ESP_ERR_TIMEOUT)
                     /\ p_dmx_obj' = p_dmx_obj
                     /\ ~halted')
          /\ IsrTxDone => (obj'.tx_done_sem = 1 /\ ~halted')
          /\ (obj.tx_done_sem = 1 /\ obj'.tx_done_sem = 0)
               => \E t \in Tasks : TakesSem(t)]_vars

\* the wait timed out and the handler has signalled the completion of the
\* packet since
C33_Witness ==
  /\ p_dmx_obj # NULL
  /\ ev = Ret(1, "wait_tx_done", ESP_ERR_TIMEOUT)
  /\ pc[1] = "idle"
  /\ obj.mode = DMX_MODE_TX
  /\ obj.tx_done_sem = 1
  /\ obj.slot_idx = obj.buf_size /\ txfifo = <<>>
  /\ "TX_DONE" \notin int_raw

\* ------------------------------------------------------- receive handler
\* the handler's pass takes the receive branch of lines 58-99
IsrRxData ==
  /\ dmx_default_intr_handler
  /\ uart_intr_status \cap DMX_INTR_TX_ALL = {}
  /\ uart_intr_status \cap RxDataIntr # {}

\* C34: after the handler's receive branch has handled an event that includes
\* RXFIFO_TOUT the RXFIFO_TOUT interrupt is disabled and no timeout is
\* pending; after it has handled a receive event (FIFO full, break, frame
\* error) without RXFIFO_TOUT the RXFIFO_TOUT interrupt is enabled.
C34_ToutOncePerIdle ==
  [][IsrRxData
       => IF "RXFIFO_TOUT" \in uart_intr_status
          THEN /\ "RXFIFO_TOUT" \notin int_ena'
               /\ "RXFIFO_TOUT" \notin uart_intr_status'
          ELSE "RXFIFO_TOUT" \in int_ena']_vars

\* a timeout has been handled: the bytes that waited in the FIFO are in the
\* buffer and the timeout interrupt is off
C34_Witness ==
  /\ p_dmx_obj # NULL /\ obj.mode = DMX_MODE_RX
  /\ "RXFIFO_TOUT" \notin int_ena
  /\ rxfifo = <<>>
  /\ obj.slot_idx = 1

\* the handler's pass takes the error branch of lines 100-116
IsrRxErr ==
  /\ dmx_default_intr_handler
  /\ uart_intr_status \cap (DMX_INTR_TX_ALL \cup RxDataIntr) = {}
  /\ uart_intr_status \cap RxErrIntr # {}

\* C35: after an overflow or parity error the handler sets the head to the
\* sentinel and flushes the FIFO, and stores no byte until a break or frame
\* error has set the head to 0; the packet that begins with that break is
\* received from index 0: once the handler has handled the break and no
\* error has come on the line since, the head is not the sentinel.
C35_NextPacketKept ==
  [][/\ IsrRxErr => obj'.slot_idx = UINT16_MAX /\ rxfifo' = <<>>
     /\ (IsrRxData /\ obj.slot_idx = UINT16_MAX)
          => /\ obj'.buffer = obj.buffer
             /\ obj'.slot_idx = IF uart_intr_status \cap RxBreakIntr # {}
                                THEN 0 ELSE UINT16_MAX
     /\ (dmx_default_intr_handler /\ rx_sync = "ok")
          => obj'.slot_idx # UINT16_MAX]_vars

\* ------------------------------------------------- SET DMX_PERSONALITY
\* what the responder answers: nothing to a broadcast
RspAnswers(bcast, reply) == rsp'.reply = IF bcast THEN "none" ELSE reply
PersonalityKept == rsp'.current = rsp.current /\ rsp'.count = rsp.count

\* C36: a SET DMX_PERSONALITY request to a sub-device other than the root
\* is answered with NACK SUB_DEVICE_OUT_OF_RANGE, one with personality
\* number 0 or a number above the personality count with NACK
\* DATA_OUT_OF_RANGE, and both leave the stored personality as it was; a
\* valid request is answered with ACK and changes current_personality only:
\* personality_count and the start address stay.
C36_SetPersonality ==
  [][(/\ rsp.p_reg
      /\ rsp'.n # rsp.n /\ rsp'.op = "SET"
      /\ rsp'.pid = RDM_PID_DMX_PERSONALITY)
       => \A bcast \in BOOLEAN, sub \in {0, 1}, f \in RspFaults :
            LET num == rsp'.arg IN
            rsp' = RdmHandled(bcast, "SET", RDM_PID_DMX_PERSONALITY, sub, num,
                              f[1], f[2], f[3])
              => /\ sub # RDM_SUB_DEVICE_ROOT
                      => /\ RspAnswers(bcast, "NACK_SUB_DEVICE_OUT_OF_RANGE")
                         /\ PersonalityKept
                 /\ (sub = RDM_SUB_DEVICE_ROOT /\ f[1]
                       /\ (num = 0 \/ num > PersonalityCount))
                      => /\ RspAnswers(bcast, "NACK_DATA_OUT_OF_RANGE")
                         /\ PersonalityKept
                 /\ (sub = RDM_SUB_DEVICE_ROOT /\ f = <<TRUE, TRUE, TRUE>>
                       /\ num \in 1..PersonalityCount)
                      => /\ RspAnswers(bcast, "ACK")
                         /\ rsp'.current = num
                         /\ rsp'.count = rsp.count
                         /\ rsp'.sa = rsp.sa]_vars

\* a SET DMX_PERSONALITY was acknowledged and changed the personality from
\* 1 to 2
C36_Witness ==
  /\ rsp.op = "SET" /\ rsp.pid = RDM_PID_DMX_PERSONALITY
  /\ rsp.reply = "ACK"
  /\ rsp.cur0 = 1 /\ rsp.current = 2
  /\ rsp.count = PersonalityCount

AckAssigned(ack) ==
  /\ ack.err # "unset" /\ ack.size # -1 /\ ack.src_uid # <<>>
  /\ ack.pid # -1 /\ ack.type # -1 /\ ack.message_count # -1

\* C40: when rdm_send_request has returned and the caller passed an ack,
\* the call has assigned err, size, src_uid, pid, type and message_count,
\* and pdl unless the response carries a timer or a NACK reason; no return
\* path leaves ack as the caller passed it.
C40_AckAssigned ==
  (RdmReturned /\ ~rdm.ack.null)
    => /\ AckAssigned(rdm.ack)
       /\ rdm.ack.type \notin {RDM_RESPONSE_TYPE_ACK_TIMER,
                                RDM_RESPONSE_TYPE_NACK_REASON}
            => rdm.ack.pdl # -1

\* ------------------------------------------------- send beside a waiter
\* dmx_tx_packet of task t returns ESP_FAIL in this step
SendRejected(t) ==
  dmx_tx_packet(t) /\ ev' = Ret(t, "tx_packet", ESP_FAIL)

\* C38: dmx_tx_packet returns ESP_FAIL only while an earlier packet is
\* still being transmitted; a dmx_wait_tx_done of another task, which takes
\* the semaphore and gives it back, does not make a send fail while nothing
\* is in flight.
C38_FailOnlyInFlight ==
  [][\A t \in Tasks : SendRejected(t) => inflight]_vars

\* ------------------------------------------------ configured durations
\* the break and the mark after break that the registers give are within
\* what the setters accept
DurationsOk(cfg) ==
  /\ BreakOk(cfg.baudrate, cfg.break_num)
  /\ MabOk(cfg.baudrate, cfg.idle_num)

\* C39: after a successful dmx_param_config, and after every successful
\* dmx_set_baudrate, dmx_set_break_num and dmx_set_idle_num that follows
\* it, the break of the stored break_num at the stored baud rate is at least
\* DMX_TX_MIN_SPACE_FOR_BRK_US and the mark after break of the stored
\* idle_num is within the transmit range.
C39_DurationsValid ==
  [][(/\ uart_cfg' # uart_cfg
      /\ (ev'[1] = "param_config" \/ DurationsOk(uart_cfg)))
       => DurationsOk(uart_cfg')]_vars
====
